---- MODULE Spec2Model ----
(***************************************************************************)
(* Model of the image-generation orchestration of imageapi: the two        *)
(* generate handlers (handleGenerate, handleAPIGenerate), the four         *)
(* registered provider adapters and the NodeImage host client.  One        *)
(* behaviour of the model is one HTTP request handled end to end; every    *)
(* HTTP round trip to a collaborator is one step whose answer is chosen    *)
(* nondeterministically.                                                   *)
(*                                                                         *)
(* Strings that the code splits or compares piecewise (model names) are    *)
(* sequences of tokens, "/" being a token of its own.  Byte slices are     *)
(* abstract values: NoBytes has length 0, every other value is non-empty.  *)
(***************************************************************************)
EXTENDS Integers, Sequences, FiniteSets, TLC

\* ------------------------------------------------------------------------
\* Bounds of the model (not program constants)
\* ------------------------------------------------------------------------

\* rand.Int63n(1000000) is drawn from 0..MaxRandSeed
MaxRandSeed == 1

\* ------------------------------------------------------------------------
\* Program constants
\* ------------------------------------------------------------------------

maxPollingAttempts == 90

maxRetries == 4

DefaultDim == 1024

DefaultSizeLimit == 1024

DreamiflyDefaultSteps == 25

\* the largest value of Go's int as far as the model checker can hold it:
\* strconv.Atoi saturates to it on a range error
MaxInt == 2147483647

\* ------------------------------------------------------------------------
\* Raw request values and their parsing
\* ------------------------------------------------------------------------

\* A textual integer field of a request: absent/empty, not a number,
\* a decimal number that fits an int, a decimal number too large for an int.
Unset == [k |-> "unset", n |-> 0]
NaN == [k |-> "nan", n |-> 0]
Big == [k |-> "big", n |-> 0]
Num(n) == [k |-> "num", n |-> n]

\* strconv.Atoi as the handlers use it: the value and whether err == nil.
\* A syntax error yields 0, a range error yields the saturated value.
AtoiVal(raw) ==
    CASE raw.k = "num" -> raw.n
      [] raw.k = "big" -> MaxInt
      [] OTHER -> 0

AtoiOk(raw) == raw.k = "num"

\* encoding/json decoding of an int field: absent leaves 0, a number that
\* fits is stored, anything else makes Decode fail.
JsonIntOk(raw) == raw.k \in {"unset", "num"}

JsonIntVal(raw) == IF raw.k = "num" THEN raw.n ELSE 0

\* ------------------------------------------------------------------------
\* Model names
\* ------------------------------------------------------------------------

Slash == "/"

\* index of the first "/" token of s, 0 when there is none
RECURSIVE FirstSlashFrom(_, _)
FirstSlashFrom(s, i) ==
    IF i > Len(s) THEN 0
    ELSE IF s[i] = Slash THEN i
    ELSE FirstSlashFrom(s, i + 1)

\* index of the last "/" token of s, 0 when there is none
RECURSIVE LastSlashFrom(_, _)
LastSlashFrom(s, i) ==
    IF i < 1 THEN 0
    ELSE IF s[i] = Slash THEN i
    ELSE LastSlashFrom(s, i - 1)

\* ParseModelName that cuts at the last "/"
ParseModelNameLastSlash(full) ==
    LET p == LastSlashFrom(full, Len(full)) IN
    IF p = 0 \/ p = 1 \/ p = Len(full)
    THEN [ok |-> FALSE, provider |-> <<>>, model |-> <<>>]
    ELSE [ok |-> TRUE,
          provider |-> SubSeq(full, 1, p - 1),
          model |-> SubSeq(full, p + 1, Len(full))]

\* ParseModelName that accepts an empty model part
ParseModelNameEmptyModel(full) ==
    LET p == FirstSlashFrom(full, 1) IN
    IF p = 0 \/ p = 1
    THEN [ok |-> FALSE, provider |-> <<>>, model |-> <<>>]
    ELSE [ok |-> TRUE,
          provider |-> SubSeq(full, 1, p - 1),
          model |-> SubSeq(full, p + 1, Len(full))]

\* providers.ParseModelName: strings.SplitN(full, "/", 2), both parts non-empty
ParseModelName(full) ==
    LET p == FirstSlashFrom(full, 1) IN
    IF p = 0 \/ p = 1 \/ p = Len(full)
    THEN [ok |-> FALSE, provider |-> <<>>, model |-> <<>>]
    ELSE [ok |-> TRUE,
          provider |-> SubSeq(full, 1, p - 1),
          model |-> SubSeq(full, p + 1, Len(full))]

\* ------------------------------------------------------------------------
\* Capability registry
\* ------------------------------------------------------------------------

Dreamifly == <<"Dreamifly">>
FalAI == <<"fal_ai">>
Modelscope == <<"Modelscope">>
Pollinations == <<"Pollinations_ai">>

dreamiflyModels ==
    << [Name |-> <<"Flux-Kontext">>, SupportedParams |-> {"steps", "seed", "image"}, MaxWidth |-> 1920, MaxHeight |-> 1920],
       [Name |-> <<"Qwen-Image-Edit">>, SupportedParams |-> {"steps", "seed", "image"}, MaxWidth |-> 1920, MaxHeight |-> 1920],
       [Name |-> <<"Wai-SDXL-V150">>, SupportedParams |-> {"steps", "seed"}, MaxWidth |-> 1920, MaxHeight |-> 1920],
       [Name |-> <<"Flux-Krea">>, SupportedParams |-> {"steps", "seed"}, MaxWidth |-> 1920, MaxHeight |-> 1920],
       [Name |-> <<"HiDream-full-fp8">>, SupportedParams |-> {"steps", "seed"}, MaxWidth |-> 1920, MaxHeight |-> 1920],
       [Name |-> <<"Qwen-Image">>, SupportedParams |-> {"steps", "seed"}, MaxWidth |-> 1920, MaxHeight |-> 1920] >>

falAIModels ==
    << [Name |-> <<"bytedance", "/", "seedream", "/", "v4", "/", "edit">>, SupportedParams |-> {"seed", "image"}, MaxWidth |-> 4096, MaxHeight |-> 4096] >>

modelScopeModels ==
    << [Name |-> <<"Qwen", "/", "Qwen-Image">>, SupportedParams |-> {"seed"}, MaxWidth |-> 2048, MaxHeight |-> 2048],
       [Name |-> <<"Qwen", "/", "Qwen-Image-Edit">>, SupportedParams |-> {"seed", "image"}, MaxWidth |-> 2048, MaxHeight |-> 2048] >>

pollinationsAIModels ==
    << [Name |-> <<"flux">>, SupportedParams |-> {"seed"}, MaxWidth |-> 1024, MaxHeight |-> 1024],
       [Name |-> <<"kontext">>, SupportedParams |-> {"seed", "image"}, MaxWidth |-> 1024, MaxHeight |-> 1024] >>

AllProviders == {Dreamifly, FalAI, Modelscope, Pollinations}

\* ImageProvider.GetModels of each adapter
GetModels(p) ==
    CASE p = Dreamifly -> dreamiflyModels
      [] p = FalAI -> falAIModels
      [] p = Modelscope -> modelScopeModels
      [] p = Pollinations -> pollinationsAIModels

\* RequiresImageURL answering true for every adapter
RequiresImageURLAll(p) == TRUE

\* ImageProvider.RequiresImageURL of each adapter
RequiresImageURL(p) ==
    CASE p = Dreamifly -> FALSE
      [] p = FalAI -> TRUE
      [] p = Modelscope -> TRUE
      [] p = Pollinations -> TRUE

\* initializeProviders: Dreamifly and Pollinations are always registered,
\* fal_ai and Modelscope only when their key is set in the environment
initializeProviders(e) ==
    {Dreamifly, Pollinations}
        \cup (IF e.FAL_API_KEY # "" THEN {FalAI} ELSE {})
        \cup (IF e.MODELSCOPE_API_KEY # "" THEN {Modelscope} ELSE {})

\* ------------------------------------------------------------------------
\* Byte slices, images and the two image transforms
\* ------------------------------------------------------------------------

NoBytes == [fmt |-> "", w |-> 0, h |-> 0]
Garbage == [fmt |-> "garbage", w |-> 0, h |-> 0]
Image(f, w, h) == [fmt |-> f, w |-> w, h |-> h]

BytesLen0(b) == b.fmt = ""

\* image.Decode with the registered decoders (jpeg, png, webp)
Decodable(b) == b.fmt \in {"png", "jpeg", "webp"}

\* uint(n) of a Go int: a negative n wraps to a value above every image side
UintWrap == 2^30

ToUint(n) == IF n < 0 THEN UintWrap + (n % UintWrap) ELSE n

\* resize.Resize(width, height, img, Lanczos3) with one of width, height 0:
\* the other side follows the aspect ratio, uint(0.7 + side/scale)
Resize(width, height, img) ==
    IF width # 0
    THEN [img EXCEPT !.w = width, !.h = (10 * img.h * width + 7 * img.w) \div (10 * img.w)]
    ELSE [img EXCEPT !.h = height, !.w = (10 * img.w * height + 7 * img.h) \div (10 * img.h)]

\* processImage handing the bytes back as they came
processImageSkipped(imageBytes, sizeLimit) == [ok |-> TRUE, bytes |-> imageBytes]

\* processImage: decode, downscale when a side exceeds sizeLimit, encode as JPEG
processImage(imageBytes, sizeLimit) ==
    IF ~Decodable(imageBytes)
    THEN [ok |-> FALSE, bytes |-> NoBytes]
    ELSE LET img == IF imageBytes.w > sizeLimit \/ imageBytes.h > sizeLimit
                    THEN IF imageBytes.w > imageBytes.h
                         THEN Resize(sizeLimit, 0, imageBytes)
                         ELSE Resize(0, sizeLimit, imageBytes)
                    ELSE imageBytes
         IN [ok |-> TRUE, bytes |-> [img EXCEPT !.fmt = "jpeg"]]

\* convertToWebP: decode, encode as WebP
convertToWebP(imageBytes) ==
    IF ~Decodable(imageBytes)
    THEN [ok |-> FALSE, bytes |-> NoBytes]
    ELSE [ok |-> TRUE, bytes |-> [imageBytes EXCEPT !.fmt = "webp"]]

\* ------------------------------------------------------------------------
\* Errors, responses, wire requests
\* ------------------------------------------------------------------------

NoErr == [kind |-> "", info |-> <<>>]
Err(kind, info) == [kind |-> kind, info |-> info]

\* the response written to the caller: status code, inline bytes or URL
NoResp == [code |-> 0, kind |-> "", err |-> "", bytes |-> NoBytes, url |-> "", body |-> <<>>]
ErrorResp(code, err) == [code |-> code, kind |-> "error", err |-> err, bytes |-> NoBytes, url |-> "", body |-> <<>>]
BytesResp(b) == [code |-> 200, kind |-> "bytes", err |-> "", bytes |-> b, url |-> "", body |-> <<>>]
UrlResp(u) == [code |-> 200, kind |-> "url", err |-> "", bytes |-> NoBytes, url |-> u, body |-> <<>>]
\* http.Redirect with StatusFound, and http.ServeFile of a page
RedirectResp(u) == [code |-> 302, kind |-> "redirect", err |-> "", bytes |-> NoBytes, url |-> u, body |-> <<>>]
FileResp(name) == [code |-> 200, kind |-> "file", err |-> "", bytes |-> NoBytes, url |-> "", body |-> <<name>>]
\* a JSON document other than the generate endpoints' {"url": ...}
JsonResp(b) == [code |-> 200, kind |-> "json", err |-> "", bytes |-> NoBytes, url |-> "", body |-> b]

\* the generation request an adapter sends upstream: the fields it carries
Wire(to, fields, in, steps, images, imageUrl) ==
    [to |-> to, fields |-> fields, prompt |-> in.Prompt, model |-> in.Model,
     width |-> in.Width, height |-> in.Height, seed |-> in.Seed, steps |-> steps,
     images |-> images, image_url |-> imageUrl]

\* base64.StdEncoding.EncodeToString / DecodeString
B64Encode(b) == [b64 |-> TRUE, of |-> b]
B64Valid(s) == s.b64
B64Decode(s) == s.of

\* ------------------------------------------------------------------------
\* Requests and environments the model explores
\* ------------------------------------------------------------------------

FullName(p, m) == p \o <<Slash>> \o m

\* the names handleGetModels lists for provider p
ListedNames(p) == {FullName(p, GetModels(p)[k].Name) : k \in 1..Len(GetModels(p))}

ValidNames ==
    { FullName(Dreamifly, <<"Flux-Kontext">>), FullName(Dreamifly, <<"Qwen-Image-Edit">>),
      FullName(Dreamifly, <<"Wai-SDXL-V150">>) }
        \cup ListedNames(FalAI) \cup ListedNames(Modelscope) \cup ListedNames(Pollinations)

InvalidNames ==
    { <<"nomodel">>, <<>>, <<"Cloudflare", Slash, "flux-1-schnell">>, <<"Dreamifly", Slash, "nope">>,
      <<"Dreamifly", Slash>>, <<Slash, "flux">> }

BigPng == Image("png", 3000, 1500)

FileMissing == [kind |-> "missing", bytes |-> NoBytes]
FileError == [kind |-> "error", bytes |-> NoBytes]
FileOf(b) == [kind |-> "ok", bytes |-> b]

InURL == "http://caller/in.png"

\* the request every family varies
BaseReq ==
    [entry |-> "web", auth |-> <<>>, model |-> FullName(Dreamifly, <<"Wai-SDXL-V150">>), prompt |-> "a cat",
     width |-> Unset, height |-> Unset, steps |-> Unset, seed |-> Unset,
     sizeLimit |-> Unset, file |-> FileMissing, imageUrl |-> "", method |-> "POST", bodyOk |-> TRUE]

\* the two generate endpoints: /api/generate and /api/v1/generate
Entries == {"web", "api"}

\* the other endpoints: /api/models, /api/v1/models, /api/optimize-prompt
ModelsEntries == {"models", "api_models"}
OptimizeEntry == "optimize"

\* the routes of the apiV1 mux, which main wraps in APIKeyAuthMiddleware
ApiV1Routes == {"api", "api_models"}

\* the index page "/", which main wraps in WebAuthMiddleware
IndexEntry == "index"
WebAuthRoutes == {IndexEntry}

\* the endpoints of the web UI: /, /api/generate, /api/models and
\* /api/optimize-prompt
WebUIRoutes == {IndexEntry, "web", "models", OptimizeEntry}

\* the Authorization header as strings.Split(header, " ") cuts it; <<>> is
\* the header that is missing or empty
ImageAPIKey == "secret"
GoodAuth == <<"Bearer", ImageAPIKey>>
AuthHeaders ==
    { <<>>, GoodAuth, <<"bearer", ImageAPIKey>>, <<"BEARER", ImageAPIKey>>,
      <<"Bearer", "wrong">>, <<"Bearer", "Secret">>, <<"Bearer", "">>, <<"Basic", ImageAPIKey>>,
      <<ImageAPIKey>>, <<"Bearer">>, <<"Bearer", "", ImageAPIKey>>, <<"Bearer", ImageAPIKey, "">> }

\* how a request carries its input image: the v1 API has only image_url
WebImages == { <<FileMissing, "">>, <<FileMissing, InURL>>, <<FileError, "">>,
               <<FileOf(NoBytes), "">>, <<FileOf(Garbage), "">>, <<FileOf(BigPng), InURL>> }
ApiImages == { <<FileMissing, "">>, <<FileMissing, InURL>> }
ImagesOf(e) == IF e = "web" THEN WebImages ELSE ApiImages

DimPairs == { <<Num(0), NaN>>, <<NaN, Num(0)>>, <<Big, Num(512)>>, <<Num(512), Big>>,
              <<Num(5000), Num(768)>>, <<Num(768), Num(5000)>>, <<Num(512), Unset>> }

SeedSteps == { <<Num(0), Num(30)>>, <<Num(5), NaN>>, <<NaN, Num(0)>>, <<Big, Big>> }

\* every model with every way to carry an image, with and without a prompt
FamilyImages ==
    { [BaseReq EXCEPT !.entry = e, !.model = m, !.prompt = p, !.file = img[1], !.imageUrl = img[2]] :
        <<e, m, p, img>> \in { x \in Entries \X (ValidNames \cup InvalidNames) \X {"", "a cat"} \X (WebImages \cup ApiImages) :
                               x[4] \in ImagesOf(x[1]) } }

\* every listed model with every shape of width and height
FamilyDims ==
    { [BaseReq EXCEPT !.entry = e, !.model = m, !.width = d[1], !.height = d[2]] :
        <<e, m, d>> \in Entries \X ValidNames \X DimPairs }

\* every listed model with caller-supplied seed and steps, with and without an image
FamilySeeds ==
    { [BaseReq EXCEPT !.entry = e, !.model = m, !.seed = s[1], !.steps = s[2], !.imageUrl = u] :
        <<e, m, s, u>> \in Entries \X ValidNames \X SeedSteps \X {"", InURL} }

\* the web form's input_size_limit; a request that is no POST; a body that
\* is no multipart form (web) or no JSON (v1)
FamilyOther ==
    { [BaseReq EXCEPT !.file = FileOf(BigPng), !.sizeLimit = l] : l \in {Num(512), NaN, Big, Num(-1)} }
        \cup { [BaseReq EXCEPT !.entry = e, !.bodyOk = FALSE] : e \in Entries }
        \cup { [BaseReq EXCEPT !.entry = e, !.method = "GET"] : e \in Entries }

\* the v1 routes with every shape of Authorization header
FamilyAuth ==
    { [BaseReq EXCEPT !.entry = e, !.auth = a] : <<e, a>> \in ApiV1Routes \X AuthHeaders }

\* listing the models and optimizing a prompt
FamilyAux ==
    { [BaseReq EXCEPT !.entry = e, !.method = m] : <<e, m>> \in ModelsEntries \X {"GET", "POST"} }
        \cup { [BaseReq EXCEPT !.entry = OptimizeEntry, !.method = m, !.bodyOk = b, !.prompt = p] :
                 <<m, b, p>> \in {"GET", "POST"} \X BOOLEAN \X {"", "a cat"} }

\* the index page
FamilyIndex == { [BaseReq EXCEPT !.entry = IndexEntry, !.method = "GET", !.prompt = ""] }

\* the web password of the server (none, or one) and the client's session;
\* the password varies for the index page, the auxiliary endpoints and the
\* web form's requests of FamilyOther
NoWebPassword == [password |-> "", authenticated |-> FALSE]
WebClients ==
    { NoWebPassword, [password |-> "pw", authenticated |-> FALSE], [password |-> "pw", authenticated |-> TRUE] }
WebClientsOf(r) ==
    IF r.entry \in WebUIRoutes /\ r \in FamilyIndex \cup FamilyAux \cup FamilyOther
    THEN WebClients ELSE {NoWebPassword}

\* a client of the v1 API sends its key
WithKey(r) == IF r.entry \in ApiV1Routes THEN [r EXCEPT !.auth = GoodAuth] ELSE r

Requests ==
    { WithKey(r) : r \in FamilyImages \cup FamilyDims \cup FamilySeeds \cup FamilyOther \cup FamilyAux }
        \cup FamilyAuth \cup FamilyIndex

\* the environment: which provider keys are set, the delivery policy flags,
\* the key of the v1 API
Envs ==
    { [FAL_API_KEY |-> "k", MODELSCOPE_API_KEY |-> "k", UPLOAD_TO_IMAGE_HOST |-> "", SAVE_LOCAL_COPY |-> "",
        NODEIMAGE_API_KEY |-> "k", IMAGEAPI_API_KEY |-> ImageAPIKey],
      [FAL_API_KEY |-> "k", MODELSCOPE_API_KEY |-> "k", UPLOAD_TO_IMAGE_HOST |-> "False", SAVE_LOCAL_COPY |-> "false",
        NODEIMAGE_API_KEY |-> "k", IMAGEAPI_API_KEY |-> ImageAPIKey],
      [FAL_API_KEY |-> "", MODELSCOPE_API_KEY |-> "", UPLOAD_TO_IMAGE_HOST |-> "true", SAVE_LOCAL_COPY |-> "true",
        NODEIMAGE_API_KEY |-> "", IMAGEAPI_API_KEY |-> ImageAPIKey],
      [FAL_API_KEY |-> "", MODELSCOPE_API_KEY |-> "", UPLOAD_TO_IMAGE_HOST |-> "true", SAVE_LOCAL_COPY |-> "true",
        NODEIMAGE_API_KEY |-> "", IMAGEAPI_API_KEY |-> ""] }

RandSeeds == 0..MaxRandSeed

\* ------------------------------------------------------------------------
\* State
\* ------------------------------------------------------------------------

VARIABLES
    env,                \* the process environment
    providerRegistry,   \* main.providerRegistry: the registered provider names
    req,                \* the HTTP request being handled
    pc,                 \* where the handler is
    input,              \* providers.GenerationInput
    provider,           \* the adapter looked up in the registry
    providedImageBytes, \* handler local
    tempImageID,        \* handler local (handleGenerate)
    deferred,           \* whether the deferred delete is registered
    genOut,             \* output.ImageBytes of provider.Generate
    genErr,             \* err of provider.Generate
    webpBytes,          \* handler local: the bytes carried into delivery
    resp,               \* the response written to the caller
    stagedID,           \* ImageID of the staging upload (handleAPIGenerate drops it)
    localSaves,         \* byte slices written to images/
    deleteWarnings,     \* failed deletes, which are only logged
    downloads,          \* DownloadFile calls: the URL and what came back
    hostUploads,        \* byte slices sent to NodeImageClient.UploadImage
    hostDeletes,        \* image IDs sent to NodeImageClient.DeleteImage
    submitted,          \* generation requests sent upstream by the adapter
    generateCalls,      \* GenerationInputs passed to provider.Generate
    i,                  \* loop variable of the adapter's polling / retry loop
    msPolls,            \* poll requests sent by ModelScopeProvider.Generate
    lastPoll,           \* the answer to the last poll
    pollHist,           \* what the polls so far were answered: a non-200, a terminal status, a fatal failure
    paFailures,         \* failures of the attempts of PollinationsAIProvider.Generate
    outURL,             \* URL of the output image the adapter has to fetch
    conc,               \* two requests served at the same time, and the image host they share
    web                 \* Settings.WebPassword, and whether the client's session is authenticated

vars == <<env, providerRegistry, req, pc, input, provider, providedImageBytes, tempImageID,
          deferred, genOut, genErr, webpBytes, resp, stagedID, localSaves, deleteWarnings, downloads, hostUploads, hostDeletes,
          submitted, generateCalls, i, msPolls, lastPoll, pollHist, paFailures, outURL, conc, web>>

handlerVars == <<input, provider, providedImageBytes, tempImageID, deferred, webpBytes, resp,
                 stagedID, localSaves, deleteWarnings>>
netVars == <<downloads, hostUploads, hostDeletes, submitted>>
adapterVars == <<genOut, genErr, generateCalls, i, msPolls, lastPoll, pollHist, paFailures, outURL>>
fixedVars == <<env, providerRegistry, req, conc, web>>

\* the handler main registers for an endpoint, as the position it starts at
HandlerOf(e) ==
    CASE e \in Entries -> "validate"
      [] e \in ModelsEntries -> "models"
      [] e = OptimizeEntry -> "optimize"
      [] e = IndexEntry -> "index"

\* no second request
NoConc == [rq |-> <<>>, stored |-> {}, issued |-> 0, uploaded |-> <<>>, deleted |-> <<>>]

NoInput ==
    [Prompt |-> "", ImageBytes |-> NoBytes, ImageURL |-> "", Width |-> 0, Height |-> 0,
     Model |-> <<>>, Seed |-> 0, Steps |-> 0]

NoPoll == [http |-> "", status |-> "", images |-> <<>>, message |-> "", body |-> <<>>]

NoHist == [sawNon200 |-> FALSE, sawTerminal |-> FALSE, sawFatal |-> FALSE]

Init ==
    /\ env \in Envs
    /\ providerRegistry = initializeProviders(env)
    /\ req \in Requests
    /\ pc = IF req.entry \in ApiV1Routes THEN "auth"
            ELSE IF req.entry \in WebAuthRoutes THEN "webauth" ELSE HandlerOf(req.entry)
    /\ input = NoInput
    /\ provider = <<>>
    /\ providedImageBytes = NoBytes
    /\ tempImageID = ""
    /\ deferred = FALSE
    /\ genOut = NoBytes
    /\ genErr = NoErr
    /\ webpBytes = NoBytes
    /\ resp = NoResp
    /\ stagedID = ""
    /\ localSaves = <<>>
    /\ deleteWarnings = 0
    /\ downloads = <<>>
    /\ hostUploads = <<>>
    /\ hostDeletes = <<>>
    /\ submitted = <<>>
    /\ generateCalls = <<>>
    /\ i = 0
    /\ msPolls = 0
    /\ lastPoll = NoPoll
    /\ pollHist = NoHist
    /\ paFailures = <<>>
    /\ outURL = ""
    /\ conc = NoConc
    /\ web \in WebClientsOf(req)

\* ------------------------------------------------------------------------
\* Collaborators' answers
\* ------------------------------------------------------------------------

\* providers.DownloadFile of a caller-supplied URL: an error (transport, status
\* other than 200, body read) or the body
NilClient == [isNil |-> TRUE, APIKey |-> ""]

\* imagehost.NewNodeImageClient: a client is made whatever the key is
NewNodeImageClient(apiKey) == [isNil |-> FALSE, APIKey |-> apiKey]

\* main.imageHostClient, set once by main from NODEIMAGE_API_KEY
imageHostClient == NewNodeImageClient(env.NODEIMAGE_API_KEY)

InputDownloads ==
    { [ok |-> FALSE, bytes |-> NoBytes], [ok |-> TRUE, bytes |-> NoBytes],
      [ok |-> TRUE, bytes |-> Garbage], [ok |-> TRUE, bytes |-> BigPng] }

\* NodeImageClient.UploadImage: an error (transport, status other than 200,
\* undecodable body, success false) or the decoded UploadResponse
UploadResponses ==
    { [ok |-> FALSE, ImageID |-> "", Direct |-> ""],
      [ok |-> TRUE, ImageID |-> "img1", Direct |-> "http://host/img1"],
      [ok |-> TRUE, ImageID |-> "", Direct |-> "http://host/anon"],
      [ok |-> TRUE, ImageID |-> "img1", Direct |-> ""] }

\* NodeImageClient.DeleteImage: nil or an error
DeleteResponses == {TRUE, FALSE}

\* ------------------------------------------------------------------------
\* handleGenerate (the web form endpoint /api/generate)
\* ------------------------------------------------------------------------

\* HGReturn with the deferred delete forgotten
HGReturnNoDefer(r) ==
    /\ resp' = r
    /\ pc' = "done"

\* a return statement of handleGenerate after the response r was written:
\* the deferred delete, once registered, runs before the handler is left
HGReturn(r) ==
    /\ resp' = r
    /\ pc' = IF deferred THEN "cleanup" ELSE "done"

\* width/height of the form: strconv.Atoi with the error dropped, 0 defaults
HGDim(raw) == IF AtoiVal(raw) = 0 THEN DefaultDim ELSE AtoiVal(raw)

\* the optional steps of the form
HGSteps(raw) == IF raw.k # "unset" /\ AtoiOk(raw) THEN AtoiVal(raw) ELSE 0

\* the seed: the caller's when it parses, the random default otherwise
HGSeed(raw, rnd) == IF raw.k # "unset" /\ AtoiOk(raw) THEN AtoiVal(raw) ELSE rnd

\* step 1: method, form, model name, registry lookup, GenerationInput
HG_Validate ==
    /\ pc = "validate" /\ req.entry = "web"
    /\ LET parsed == ParseModelName(req.model) IN
       IF req.method # "POST"
       THEN HGReturn(ErrorResp(405, "method")) /\ UNCHANGED <<input, provider>>
       ELSE IF ~req.bodyOk
       THEN HGReturn(ErrorResp(400, "form")) /\ UNCHANGED <<input, provider>>
       ELSE IF ~parsed.ok
       THEN HGReturn(ErrorResp(400, "model_format")) /\ UNCHANGED <<input, provider>>
       ELSE IF parsed.provider \notin providerRegistry
       THEN HGReturn(ErrorResp(400, "provider_not_found")) /\ UNCHANGED <<input, provider>>
       ELSE \E rnd \in RandSeeds :
              /\ input' = [Prompt |-> req.prompt, ImageBytes |-> NoBytes, ImageURL |-> "",
                           Width |-> HGDim(req.width), Height |-> HGDim(req.height),
                           Model |-> parsed.model, Seed |-> HGSeed(req.seed, rnd),
                           Steps |-> HGSteps(req.steps)]
              /\ provider' = parsed.provider
              /\ pc' = "image_input"
              /\ UNCHANGED resp
    /\ UNCHANGED <<providedImageBytes, tempImageID, deferred, webpBytes, stagedID, localSaves, deleteWarnings>>
    /\ UNCHANGED <<netVars, adapterVars, fixedVars>>

\* step 2: the input image, from the uploaded file or else from imageUrl
HG_ImageInput ==
    /\ pc = "image_input" /\ req.entry = "web"
    /\ IF req.file.kind = "error"
       THEN HGReturn(ErrorResp(400, "form_file")) /\ UNCHANGED <<providedImageBytes, downloads>>
       ELSE IF req.file.kind = "ok"
       THEN /\ providedImageBytes' = req.file.bytes
            /\ pc' = "process"
            /\ UNCHANGED <<resp, downloads>>
       ELSE IF req.imageUrl # ""
       THEN \E d \in InputDownloads :
              /\ downloads' = Append(downloads, [url |-> req.imageUrl, ok |-> d.ok, bytes |-> d.bytes])
              /\ IF d.ok
                 THEN providedImageBytes' = d.bytes /\ pc' = "process" /\ UNCHANGED resp
                 ELSE HGReturn(ErrorResp(400, "download")) /\ UNCHANGED providedImageBytes
       ELSE pc' = "process" /\ UNCHANGED <<resp, providedImageBytes, downloads>>
    /\ UNCHANGED <<input, provider, tempImageID, deferred, webpBytes, stagedID, localSaves, deleteWarnings>>
    /\ UNCHANGED <<hostUploads, hostDeletes, submitted, adapterVars, fixedVars>>

\* input_size_limit of the form as the uint handed to processImage
HGSizeLimit(raw) == ToUint(IF AtoiVal(raw) = 0 THEN DefaultSizeLimit ELSE AtoiVal(raw))

\* step 2a: resize and compress a non-empty input image
HG_Process ==
    /\ pc = "process" /\ req.entry = "web"
    /\ IF BytesLen0(providedImageBytes)
       THEN pc' = "precheck" /\ UNCHANGED <<resp, providedImageBytes, input>>
       ELSE LET processed == processImage(providedImageBytes, HGSizeLimit(req.sizeLimit)) IN
            IF ~processed.ok
            THEN HGReturn(ErrorResp(500, "process_image")) /\ UNCHANGED <<providedImageBytes, input>>
            ELSE /\ providedImageBytes' = processed.bytes
                 /\ input' = [input EXCEPT !.ImageBytes = processed.bytes]
                 /\ pc' = IF RequiresImageURL(provider) THEN "stage" ELSE "precheck"
                 /\ UNCHANGED resp
    /\ UNCHANGED <<provider, tempImageID, deferred, webpBytes, stagedID, localSaves, deleteWarnings>>
    /\ UNCHANGED <<netVars, adapterVars, fixedVars>>

\* step 2b: a provider that needs a URL gets the image staged on the host,
\* and the delete of the staged image is deferred
HG_Stage ==
    /\ pc = "stage" /\ req.entry = "web"
    /\ IF imageHostClient = NilClient
       THEN /\ HGReturn(ErrorResp(500, "hosting_not_configured"))
            /\ UNCHANGED <<hostUploads, input, tempImageID, stagedID, deferred>>
       ELSE \E u \in UploadResponses :
         /\ hostUploads' = Append(hostUploads, providedImageBytes)
         /\ IF ~u.ok
            THEN HGReturn(ErrorResp(500, "upload_temp")) /\ UNCHANGED <<input, tempImageID, stagedID, deferred>>
            ELSE /\ input' = [input EXCEPT !.ImageURL = u.Direct]
                 /\ tempImageID' = u.ImageID
                 /\ stagedID' = u.ImageID
                 /\ deferred' = TRUE
                 /\ pc' = "precheck"
                 /\ UNCHANGED resp
    /\ UNCHANGED <<provider, providedImageBytes, webpBytes, localSaves, deleteWarnings>>
    /\ UNCHANGED <<downloads, hostDeletes, submitted, adapterVars, fixedVars>>

\* the models handleGenerate refuses to call without an image
HGEditModels == { FullName(Dreamifly, <<"Flux-Kontext">>), FullName(Dreamifly, <<"Qwen-Image-Edit">>) }

\* step 3: the image check of the two Dreamifly edit models, then the call
HG_Precheck ==
    /\ pc = "precheck" /\ req.entry = "web"
    /\ IF req.model \in HGEditModels /\ BytesLen0(input.ImageBytes)
       THEN HGReturn(ErrorResp(400, "requires_image")) /\ UNCHANGED generateCalls
       ELSE /\ pc' = "generate"
            /\ generateCalls' = Append(generateCalls, input)
            /\ UNCHANGED resp
    /\ UNCHANGED <<input, provider, providedImageBytes, tempImageID, deferred, webpBytes, stagedID, localSaves, deleteWarnings>>
    /\ UNCHANGED <<netVars, genOut, genErr, i, msPolls, lastPoll, pollHist, paFailures, outURL, fixedVars>>

\* ------------------------------------------------------------------------
\* Provider adapters: provider.Generate(input), entered at pc = "generate"
\* ------------------------------------------------------------------------

\* GenReturn that starts Generate over when it failed
GenReturnRetry(out, err) ==
    /\ genOut' = out
    /\ genErr' = err
    /\ pc' = IF err # NoErr THEN "generate" ELSE "returned"

\* a return statement of an adapter's Generate
GenReturn(out, err) ==
    /\ genOut' = out
    /\ genErr' = err
    /\ pc' = "returned"

\* the locals of the Generate call, and what it counted, are gone once the
\* handler has taken its result
GenFrameGone ==
    /\ i' = 0
    /\ msPolls' = 0
    /\ lastPoll' = NoPoll
    /\ pollHist' = NoHist
    /\ paFailures' = <<>>
    /\ outURL' = ""

OutPng == Image("png", 1024, 1024)

\* providers.DownloadFile of a provider's output URL
OutputDownloads ==
    { [ok |-> FALSE, bytes |-> NoBytes], [ok |-> TRUE, bytes |-> NoBytes],
      [ok |-> TRUE, bytes |-> Garbage], [ok |-> TRUE, bytes |-> OutPng] }

\* --- DreamiflyProvider ---------------------------------------------------

\* the imageUrl of a Dreamifly JSON answer: absent/empty, or a string that
\* may start with "data:image/", may hold a comma, and ends in a payload
NoImageUrl == [empty |-> TRUE, dataPrefix |-> FALSE, comma |-> FALSE, payload |-> [b64 |-> FALSE, of |-> NoBytes]]
ImageUrlOf(prefix, comma, payload) == [empty |-> FALSE, dataPrefix |-> prefix, comma |-> comma, payload |-> payload]

JsonText == [fmt |-> "json", w |-> 0, h |-> 0]

DreamiflyBodies ==
    { [json |-> FALSE, imageUrl |-> NoImageUrl, raw |-> OutPng],
      [json |-> FALSE, imageUrl |-> NoImageUrl, raw |-> NoBytes],
      [json |-> TRUE, imageUrl |-> NoImageUrl, raw |-> JsonText],
      [json |-> TRUE, imageUrl |-> ImageUrlOf(TRUE, TRUE, B64Encode(OutPng)), raw |-> JsonText],
      [json |-> TRUE, imageUrl |-> ImageUrlOf(TRUE, TRUE, [b64 |-> FALSE, of |-> NoBytes]), raw |-> JsonText],
      [json |-> TRUE, imageUrl |-> ImageUrlOf(TRUE, FALSE, B64Encode(OutPng)), raw |-> JsonText],
      [json |-> TRUE, imageUrl |-> ImageUrlOf(FALSE, TRUE, B64Encode(OutPng)), raw |-> JsonText] }

\* what Client.Do and io.ReadAll give: a transport error, a status other
\* than 200, a body that cannot be read, or a 200 body
HttpFailures == {"transport", "status", "read"}

\* the payload of DreamiflyProvider.Generate: steps defaulted, every field sent
DreamiflyPayload(in) ==
    LET images == IF BytesLen0(in.ImageBytes) THEN <<>> ELSE <<B64Encode(in.ImageBytes)>>
        steps == IF in.Steps = 0 THEN DreamiflyDefaultSteps ELSE in.Steps
    IN Wire(Dreamifly,
            {"prompt", "width", "height", "seed", "batch_size", "model", "images", "denoise"}
                \cup (IF steps # 0 THEN {"steps"} ELSE {}),
            in, steps, images, "")

\* DreamiflyDecode taking an imageUrl without the data:image/ prefix for
\* a body to hand back as it is
DreamiflyDecodeLenient(body) ==
    IF body.json /\ ~body.imageUrl.empty /\ body.imageUrl.dataPrefix
    THEN IF body.imageUrl.comma
         THEN IF B64Valid(body.imageUrl.payload)
              THEN [out |-> B64Decode(body.imageUrl.payload), err |-> NoErr]
              ELSE [out |-> NoBytes, err |-> Err("dreamifly_base64", <<>>)]
         ELSE [out |-> NoBytes, err |-> Err("dreamifly_data_url", <<>>)]
    ELSE [out |-> body.raw, err |-> NoErr]

\* the classification of a 200 body by DreamiflyProvider.Generate
DreamiflyDecode(body) ==
    IF body.json /\ ~body.imageUrl.empty
    THEN IF body.imageUrl.dataPrefix
         THEN IF body.imageUrl.comma
              THEN IF B64Valid(body.imageUrl.payload)
                   THEN [out |-> B64Decode(body.imageUrl.payload), err |-> NoErr]
                   ELSE [out |-> NoBytes, err |-> Err("dreamifly_base64", <<>>)]
              ELSE [out |-> NoBytes, err |-> Err("dreamifly_data_url", <<>>)]
         ELSE [out |-> NoBytes, err |-> Err("dreamifly_url_format", <<>>)]
    ELSE [out |-> body.raw, err |-> NoErr]

DreamiflyGenerate ==
    /\ pc = "generate" /\ provider = Dreamifly
    /\ submitted' = Append(submitted, DreamiflyPayload(input))
    /\ \/ \E f \in HttpFailures : GenReturn(NoBytes, Err("dreamifly_" \o f, <<>>))
       \/ \E body \in DreamiflyBodies :
            GenReturn(DreamiflyDecode(body).out, DreamiflyDecode(body).err)
    /\ UNCHANGED <<handlerVars, downloads, hostUploads, hostDeletes, fixedVars>>
    /\ UNCHANGED <<generateCalls, i, msPolls, lastPoll, pollHist, paFailures, outURL>>

\* --- FalAIProvider -------------------------------------------------------

FalPayload(in) ==
    Wire(FalAI, {"prompt", "image_urls", "image_size", "enable_safety_checker"},
         in, 0, <<>>, in.ImageURL)

\* the decoded answer of fal.run: the URLs of the images
FalAnswers == { <<>>, <<"http://fal/out1">>, <<"http://fal/out1", "http://fal/out2">> }

\* FalAIProvider.Generate up to the answer of the submit request
Fal_Submit ==
    /\ pc = "generate" /\ provider = FalAI
    /\ IF input.ImageURL = ""
       THEN GenReturn(NoBytes, Err("fal_image_url_required", <<>>)) /\ UNCHANGED <<submitted, outURL>>
       ELSE /\ submitted' = Append(submitted, FalPayload(input))
            /\ \/ \E f \in {"transport", "status", "decode"} :
                    GenReturn(NoBytes, Err("fal_" \o f, <<>>)) /\ UNCHANGED outURL
               \/ \E a \in FalAnswers :
                    IF Len(a) = 0
                    THEN GenReturn(NoBytes, Err("fal_no_images", <<>>)) /\ UNCHANGED outURL
                    ELSE outURL' = a[1] /\ pc' = "fal_download" /\ UNCHANGED <<genOut, genErr>>
    /\ UNCHANGED <<handlerVars, downloads, hostUploads, hostDeletes, fixedVars>>
    /\ UNCHANGED <<generateCalls, i, msPolls, lastPoll, pollHist, paFailures>>

\* Fal_Download fetching every image of the answer, the last one the result
Fal_DownloadTwice ==
    /\ pc = "fal_download"
    /\ \E d \in OutputDownloads :
         /\ downloads' = downloads \o <<[url |-> outURL, ok |-> d.ok, bytes |-> d.bytes],
                                        [url |-> "http://fal/out2", ok |-> d.ok, bytes |-> d.bytes]>>
         /\ IF d.ok THEN GenReturn(d.bytes, NoErr) ELSE GenReturn(NoBytes, Err("fal_download", <<>>))
    /\ UNCHANGED <<handlerVars, hostUploads, hostDeletes, submitted, fixedVars>>
    /\ UNCHANGED <<generateCalls, i, msPolls, lastPoll, pollHist, paFailures, outURL>>

\* FalAIProvider.Generate: the download of the first image
Fal_Download ==
    /\ pc = "fal_download"
    /\ \E d \in OutputDownloads :
         /\ downloads' = Append(downloads, [url |-> outURL, ok |-> d.ok, bytes |-> d.bytes])
         /\ IF d.ok THEN GenReturn(d.bytes, NoErr) ELSE GenReturn(NoBytes, Err("fal_download", <<>>))
    /\ UNCHANGED <<handlerVars, hostUploads, hostDeletes, submitted, fixedVars>>
    /\ UNCHANGED <<generateCalls, i, msPolls, lastPoll, pollHist, paFailures, outURL>>

\* --- ModelScopeProvider (submit, then poll) --------------------------------

\* the submit payload: image_url has omitempty; the async-mode header is set
ModelScopePayload(in) ==
    Wire(Modelscope,
         {"model", "prompt", "size", "X-ModelScope-Async-Mode"}
             \cup (IF in.ImageURL # "" THEN {"image_url"} ELSE {}),
         in, 0, <<>>, in.ImageURL)

\* the decoded task_id of the submit answer
TaskIDs == {"", "task1"}

\* MS_Submit that notes the failed submit and goes on to poll
MS_SubmitPollsAnyway ==
    /\ pc = "generate" /\ provider = Modelscope
    /\ submitted' = Append(submitted, ModelScopePayload(input))
    /\ \/ \E f \in {"transport", "status", "decode"} :
            genErr' = Err("ms_submit_" \o f, <<>>) /\ pc' = "ms_poll" /\ UNCHANGED genOut
       \/ \E t \in TaskIDs :
            IF t = ""
            THEN genErr' = Err("ms_no_task_id", <<>>) /\ pc' = "ms_poll" /\ UNCHANGED genOut
            ELSE pc' = "ms_poll" /\ UNCHANGED <<genOut, genErr>>
    /\ i' = 0
    /\ UNCHANGED <<handlerVars, downloads, hostUploads, hostDeletes, fixedVars>>
    /\ UNCHANGED <<generateCalls, msPolls, lastPoll, pollHist, paFailures, outURL>>

\* ModelScopeProvider.Generate up to the answer of the submit request
MS_Submit ==
    /\ pc = "generate" /\ provider = Modelscope
    /\ submitted' = Append(submitted, ModelScopePayload(input))
    /\ \/ \E f \in {"transport", "status", "decode"} : GenReturn(NoBytes, Err("ms_submit_" \o f, <<>>))
       \/ \E t \in TaskIDs :
            IF t = ""
            THEN GenReturn(NoBytes, Err("ms_no_task_id", <<>>))
            ELSE pc' = "ms_poll" /\ UNCHANGED <<genOut, genErr>>
    /\ i' = 0
    /\ UNCHANGED <<handlerVars, downloads, hostUploads, hostDeletes, fixedVars>>
    /\ UNCHANGED <<generateCalls, msPolls, lastPoll, pollHist, paFailures, outURL>>

\* the answer to one poll: http is "transport" (Client.Do failed), "status"
\* (not 200), "read" (body unreadable), "badjson" or "ok" (a decoded task);
\* body is the text of the body, as tokens
PollAnswer(http, status, images, message) ==
    [http |-> http, status |-> status, images |-> images, message |-> message,
     body |-> IF http = "ok" THEN <<"task_status", status, "message", message>> ELSE <<http>>]

PollAnswers ==
    { PollAnswer(h, "", <<>>, "") : h \in {"transport", "status", "read", "badjson"} }
        \cup { PollAnswer("ok", st, <<>>, "") : st \in {"PENDING", "SUCCEED"} }
        \cup { PollAnswer("ok", "SUCCEED", <<"http://ms/out1", "http://ms/out2">>, "") }
        \cup { PollAnswer("ok", st, <<>>, m) : st \in {"FAILED", "CANCELED"}, m \in {"", "quota exceeded"} }

\* PollLoopCond off by one
PollLoopCondOffByOne(n) == n <= maxPollingAttempts

\* PollLoopCond that gives up one attempt early
PollLoopCondEarly(n) == n < maxPollingAttempts - 1

\* the condition of the polling loop
PollLoopCond(n) == n < maxPollingAttempts

TerminalStatus(st) == st \in {"SUCCEED", "FAILED", "CANCELED"}

\* PollVerdict that gives up on a status other than 200
PollVerdictAbortOnStatus(a) ==
    CASE a.http \in {"transport", "read", "badjson", "status"} -> "abort"
      [] a.http = "ok" /\ a.status = "SUCCEED" /\ Len(a.images) > 0 -> "download"
      [] a.http = "ok" /\ a.status = "SUCCEED" /\ Len(a.images) = 0 -> "noimage"
      [] a.http = "ok" /\ a.status \in {"FAILED", "CANCELED"} -> "failed"
      [] OTHER -> "continue"

\* PollVerdict that keeps polling a canceled task
PollVerdictIgnoreCanceled(a) ==
    CASE a.http \in {"transport", "read", "badjson"} -> "abort"
      [] a.http = "status" -> "continue"
      [] a.http = "ok" /\ a.status = "SUCCEED" /\ Len(a.images) > 0 -> "download"
      [] a.http = "ok" /\ a.status = "SUCCEED" /\ Len(a.images) = 0 -> "noimage"
      [] a.http = "ok" /\ a.status = "FAILED" -> "failed"
      [] OTHER -> "continue"

\* PollVerdict that polls again after a body that is no JSON
PollVerdictSkipBadJson(a) ==
    CASE a.http \in {"transport", "read"} -> "abort"
      [] a.http \in {"status", "badjson"} -> "continue"
      [] a.http = "ok" /\ a.status = "SUCCEED" /\ Len(a.images) > 0 -> "download"
      [] a.http = "ok" /\ a.status = "SUCCEED" /\ Len(a.images) = 0 -> "noimage"
      [] a.http = "ok" /\ a.status \in {"FAILED", "CANCELED"} -> "failed"
      [] OTHER -> "continue"

\* what one loop iteration does with the answer a: "abort" (return an
\* error at once), "continue", "download" (the first output image),
\* "noimage" (succeeded without image), "failed"
PollVerdict(a) ==
    CASE a.http \in {"transport", "read", "badjson"} -> "abort"
      [] a.http = "status" -> "continue"
      [] a.http = "ok" /\ a.status = "SUCCEED" /\ Len(a.images) > 0 -> "download"
      [] a.http = "ok" /\ a.status = "SUCCEED" /\ Len(a.images) = 0 -> "noimage"
      [] a.http = "ok" /\ a.status \in {"FAILED", "CANCELED"} -> "failed"
      [] OTHER -> "continue"

\* the error of a FAILED or CANCELED task: the message when there is one,
\* and the full body
TaskFailedErr(a) ==
    Err("ms_task_failed",
        (IF a.message # "" THEN <<"Reason:", a.message>> ELSE <<>>) \o <<"Full Response:">> \o a.body)

\* one iteration of the polling loop: sleep, poll, decide
MS_Poll ==
    /\ pc = "ms_poll"
    /\ PollLoopCond(i)
    /\ \E a \in PollAnswers :
         /\ msPolls' = msPolls + 1
         /\ lastPoll' = a
         /\ pollHist' = [sawNon200 |-> pollHist.sawNon200 \/ a.http = "status",
                         sawTerminal |-> pollHist.sawTerminal \/ (a.http = "ok" /\ TerminalStatus(a.status)),
                         sawFatal |-> pollHist.sawFatal \/ a.http \in {"transport", "read", "badjson"}]
         /\ LET v == PollVerdict(a) IN
            IF v = "abort"
            THEN GenReturn(NoBytes, Err("ms_poll_" \o a.http, <<>>)) /\ UNCHANGED <<i, outURL>>
            ELSE IF v = "download"
            THEN outURL' = a.images[1] /\ pc' = "ms_download" /\ UNCHANGED <<i, genOut, genErr>>
            ELSE IF v = "noimage"
            THEN GenReturn(NoBytes, Err("ms_no_image_url", <<>>)) /\ UNCHANGED <<i, outURL>>
            ELSE IF v = "failed"
            THEN GenReturn(NoBytes, TaskFailedErr(a)) /\ UNCHANGED <<i, outURL>>
            ELSE i' = i + 1 /\ UNCHANGED <<pc, genOut, genErr, outURL>>
    /\ UNCHANGED <<handlerVars, netVars, fixedVars, generateCalls, paFailures>>

\* MS_Timeout that never leaves the exhausted loop
MS_TimeoutStuck ==
    /\ pc = "ms_poll"
    /\ ~PollLoopCond(i)
    /\ UNCHANGED vars

\* the loop ran out of attempts
MS_Timeout ==
    /\ pc = "ms_poll"
    /\ ~PollLoopCond(i)
    /\ GenReturn(NoBytes, Err("ms_timeout", <<>>))
    /\ UNCHANGED <<handlerVars, netVars, fixedVars>>
    /\ UNCHANGED <<generateCalls, i, msPolls, lastPoll, pollHist, paFailures, outURL>>

\* the download of the first output image of a succeeded task
MS_Download ==
    /\ pc = "ms_download"
    /\ \E d \in OutputDownloads :
         /\ downloads' = Append(downloads, [url |-> outURL, ok |-> d.ok, bytes |-> d.bytes])
         /\ IF d.ok THEN GenReturn(d.bytes, NoErr) ELSE GenReturn(NoBytes, Err("ms_download", <<>>))
    /\ UNCHANGED <<handlerVars, hostUploads, hostDeletes, submitted, fixedVars>>
    /\ UNCHANGED <<generateCalls, i, msPolls, lastPoll, pollHist, paFailures, outURL>>

\* --- PollinationsAIProvider (retrying) -------------------------------------

\* the GET request: image only with a URL, seed only when not 0
PollinationsPayload(in) ==
    Wire(Pollinations,
         {"prompt", "model", "width", "height", "nologo"}
             \cup (IF in.ImageURL # "" THEN {"image"} ELSE {})
             \cup (IF in.Seed # 0 THEN {"seed"} ELSE {}),
         in, 0, <<>>, in.ImageURL)

\* PollinationsAIProvider.Generate up to the retry loop
PA_Start ==
    /\ pc = "generate" /\ provider = Pollinations
    /\ IF input.ImageURL = "" /\ input.Model = <<"kontext">>
       THEN GenReturn(NoBytes, Err("pa_requires_image_url", <<>>))
       ELSE pc' = "pa_attempt" /\ UNCHANGED <<genOut, genErr>>
    /\ i' = 0
    /\ UNCHANGED <<handlerVars, netVars, fixedVars>>
    /\ UNCHANGED <<generateCalls, msPolls, lastPoll, pollHist, paFailures, outURL>>

\* RetryAgain off by one
RetryAgainOffByOne(n) == n < maxRetries

\* whether the attempt with loop variable n is followed by another one
RetryAgain(n) == n < maxRetries - 1

\* the answer to one attempt: a failure (transport error, status other than
\* 200), or a 200 whose body is read (or fails to be read)
PAFailures == {"transport", "status500"}
PABodies == { [ok |-> FALSE, bytes |-> NoBytes], [ok |-> TRUE, bytes |-> NoBytes], [ok |-> TRUE, bytes |-> OutPng] }

\* the error returned when the attempt with loop variable n failed with f
\* and is not retried
PAGiveUp(n, fs, f) == Err(IF f = "transport" THEN "pa_call_failed" ELSE "pa_giving_up", <<f>>)

\* one iteration of the retry loop
PA_Attempt ==
    /\ pc = "pa_attempt"
    /\ submitted' = Append(submitted, PollinationsPayload(input))
    /\ \/ \E f \in PAFailures :
            /\ paFailures' = Append(paFailures, f)
            /\ IF RetryAgain(i)
               THEN i' = i + 1 /\ UNCHANGED <<pc, genOut, genErr>>
               ELSE GenReturn(NoBytes, PAGiveUp(i, paFailures, f)) /\ UNCHANGED i
       \/ \E b \in PABodies :
            /\ IF b.ok THEN GenReturn(b.bytes, NoErr) ELSE GenReturn(NoBytes, Err("pa_read", <<>>))
            /\ UNCHANGED <<i, paFailures>>
    /\ UNCHANGED <<handlerVars, downloads, hostUploads, hostDeletes, fixedVars>>
    /\ UNCHANGED <<generateCalls, msPolls, lastPoll, pollHist, outURL>>

\* ------------------------------------------------------------------------
\* handleGenerate, after the provider call
\* ------------------------------------------------------------------------

\* HG_AfterGenerate without the check for an empty output
HG_AfterGenerateAnyOutput ==
    /\ pc = "returned" /\ req.entry = "web"
    /\ IF genErr # NoErr
       THEN HGReturn(ErrorResp(500, "provider_error"))
       ELSE pc' = "convert" /\ UNCHANGED resp
    /\ GenFrameGone
    /\ UNCHANGED <<input, provider, providedImageBytes, tempImageID, deferred, webpBytes, localSaves, deleteWarnings, stagedID>>
    /\ UNCHANGED <<netVars, genOut, genErr, generateCalls, fixedVars>>

\* the provider's error or empty output ends the request
HG_AfterGenerate ==
    /\ pc = "returned" /\ req.entry = "web"
    /\ IF genErr # NoErr
       THEN HGReturn(ErrorResp(500, "provider_error"))
       ELSE IF BytesLen0(genOut)
       THEN HGReturn(ErrorResp(500, "no_image_data"))
       ELSE pc' = "convert" /\ UNCHANGED resp
    /\ GenFrameGone
    /\ UNCHANGED <<input, provider, providedImageBytes, tempImageID, deferred, webpBytes, localSaves, deleteWarnings, stagedID>>
    /\ UNCHANGED <<netVars, genOut, genErr, generateCalls, fixedVars>>

\* FinalBytes without the fallback to the original bytes
FinalBytesNoFallback(out) == convertToWebP(out).bytes

\* the bytes carried on: the WebP encoding, or the original on failure
FinalBytes(out) == IF convertToWebP(out).ok THEN convertToWebP(out).bytes ELSE out

\* Lower that leaves the value as it is
LowerCaseSensitive(v) == v

Lower(v) == IF v \in {"false", "FALSE", "False"} THEN "false" ELSE v

\* step 5: convert to WebP, keep a local copy unless SAVE_LOCAL_COPY is false
HG_Convert ==
    /\ pc = "convert" /\ req.entry = "web"
    /\ webpBytes' = FinalBytes(genOut)
    /\ localSaves' = IF Lower(env.SAVE_LOCAL_COPY) # "false"
                     THEN Append(localSaves, FinalBytes(genOut)) ELSE localSaves
    /\ pc' = "deliver"
    /\ UNCHANGED <<input, provider, providedImageBytes, tempImageID, deferred, resp, deleteWarnings, stagedID>>
    /\ UNCHANGED <<netVars, adapterVars, fixedVars>>

\* steps 6 and 7: inline bytes when UPLOAD_TO_IMAGE_HOST is false, else the
\* URL of the output uploaded to the host
HG_Deliver ==
    /\ pc = "deliver" /\ req.entry = "web"
    /\ IF Lower(env.UPLOAD_TO_IMAGE_HOST) = "false"
       THEN HGReturn(BytesResp(webpBytes)) /\ UNCHANGED hostUploads
       ELSE IF imageHostClient = NilClient
       THEN HGReturn(ErrorResp(500, "hosting_not_configured")) /\ UNCHANGED hostUploads
       ELSE \E u \in UploadResponses :
              /\ hostUploads' = Append(hostUploads, webpBytes)
              /\ IF u.ok
                 THEN HGReturn(UrlResp(u.Direct))
                 ELSE HGReturn(ErrorResp(500, "upload_final"))
    /\ UNCHANGED <<input, provider, providedImageBytes, tempImageID, deferred, webpBytes, localSaves, deleteWarnings, stagedID>>
    /\ UNCHANGED <<downloads, hostDeletes, submitted, adapterVars, fixedVars>>

\* AfterDelete that turns a failed delete into an error response
AfterDeletePropagates(r, ok) == IF ok THEN r ELSE ErrorResp(500, "delete_failed")

\* the response once DeleteImage has answered: a failure is only logged
AfterDelete(r, ok) == r

\* HG_Deferred running as soon as it is registered, not when the handler returns
HG_DeferredAtOnce ==
    /\ pc # "done" /\ deferred /\ tempImageID # "" /\ hostDeletes = <<>>
    /\ hostDeletes' = <<tempImageID>>
    /\ UNCHANGED <<pc, resp, deleteWarnings>>
    /\ UNCHANGED <<input, provider, providedImageBytes, tempImageID, deferred, webpBytes, stagedID, localSaves>>
    /\ UNCHANGED <<downloads, hostUploads, submitted, adapterVars, fixedVars>>

\* the deferred function of handleGenerate: delete the staged image
HG_Deferred ==
    /\ pc = "cleanup"
    /\ IF tempImageID # ""
       THEN \E ok \in DeleteResponses :
              /\ hostDeletes' = Append(hostDeletes, tempImageID)
              /\ deleteWarnings' = IF ok THEN deleteWarnings ELSE deleteWarnings + 1
              /\ resp' = AfterDelete(resp, ok)
       ELSE UNCHANGED <<hostDeletes, deleteWarnings, resp>>
    /\ pc' = "done"
    /\ UNCHANGED <<input, provider, providedImageBytes, tempImageID, deferred, webpBytes, stagedID, localSaves>>
    /\ UNCHANGED <<downloads, hostUploads, submitted, adapterVars, fixedVars>>

\* ------------------------------------------------------------------------
\* handleAPIGenerate (the v1 JSON endpoint /api/v1/generate)
\* ------------------------------------------------------------------------

\* APIReturn that writes the response and goes on to output normalization
APIReturnFallsThrough(r) ==
    /\ resp' = r
    /\ pc' = IF r.kind = "error" THEN "convert" ELSE "done"

\* a return statement of handleAPIGenerate: it registers no deferred delete
APIReturn(r) ==
    /\ resp' = r
    /\ pc' = "done"

\* width/height of the JSON body, 0 defaults
APIDim(raw) == IF JsonIntVal(raw) = 0 THEN DefaultDim ELSE JsonIntVal(raw)

\* the seed of the JSON body, the random default when it is 0
APISeed(raw, rnd) == IF JsonIntVal(raw) = 0 THEN rnd ELSE JsonIntVal(raw)

\* steps 1 to 3: method, JSON body, required fields, model name, registry
\* lookup, GenerationInput
API_Validate ==
    /\ pc = "validate" /\ req.entry = "api"
    /\ LET parsed == ParseModelName(req.model)
           decoded == req.bodyOk /\ \A f \in {req.width, req.height, req.seed, req.steps} : JsonIntOk(f)
       IN
       IF req.method # "POST"
       THEN APIReturn(ErrorResp(405, "method")) /\ UNCHANGED <<input, provider>>
       ELSE IF ~decoded
       THEN APIReturn(ErrorResp(400, "json")) /\ UNCHANGED <<input, provider>>
       ELSE IF req.prompt = "" \/ req.model = <<>>
       THEN APIReturn(ErrorResp(400, "required_fields")) /\ UNCHANGED <<input, provider>>
       ELSE IF ~parsed.ok
       THEN APIReturn(ErrorResp(400, "model_format")) /\ UNCHANGED <<input, provider>>
       ELSE IF parsed.provider \notin providerRegistry
       THEN APIReturn(ErrorResp(400, "provider_not_found")) /\ UNCHANGED <<input, provider>>
       ELSE \E rnd \in RandSeeds :
              /\ input' = [Prompt |-> req.prompt, ImageBytes |-> NoBytes, ImageURL |-> "",
                           Width |-> APIDim(req.width), Height |-> APIDim(req.height),
                           Model |-> parsed.model, Seed |-> APISeed(req.seed, rnd),
                           Steps |-> JsonIntVal(req.steps)]
              /\ provider' = parsed.provider
              /\ pc' = "image_input"
              /\ UNCHANGED resp
    /\ UNCHANGED <<providedImageBytes, tempImageID, deferred, webpBytes, localSaves, deleteWarnings, stagedID>>
    /\ UNCHANGED <<netVars, adapterVars, fixedVars>>

\* step 4: the input image, downloaded from image_url
API_ImageInput ==
    /\ pc = "image_input" /\ req.entry = "api"
    /\ IF req.imageUrl # ""
       THEN \E d \in InputDownloads :
              /\ downloads' = Append(downloads, [url |-> req.imageUrl, ok |-> d.ok, bytes |-> d.bytes])
              /\ IF d.ok
                 THEN providedImageBytes' = d.bytes /\ pc' = "process" /\ UNCHANGED resp
                 ELSE APIReturn(ErrorResp(400, "download")) /\ UNCHANGED providedImageBytes
       ELSE pc' = "process" /\ UNCHANGED <<resp, providedImageBytes, downloads>>
    /\ UNCHANGED <<input, provider, tempImageID, deferred, webpBytes, localSaves, deleteWarnings, stagedID>>
    /\ UNCHANGED <<hostUploads, hostDeletes, submitted, adapterVars, fixedVars>>

\* resize and compress a non-empty input image, with the fixed limit 1024
API_Process ==
    /\ pc = "process" /\ req.entry = "api"
    /\ IF BytesLen0(providedImageBytes)
       THEN pc' = "precheck" /\ UNCHANGED <<resp, input>>
       ELSE LET processed == processImage(providedImageBytes, DefaultSizeLimit) IN
            IF ~processed.ok
            THEN APIReturn(ErrorResp(500, "process_image")) /\ UNCHANGED input
            ELSE /\ input' = [input EXCEPT !.ImageBytes = processed.bytes]
                 /\ pc' = IF RequiresImageURL(provider) THEN "stage" ELSE "precheck"
                 /\ UNCHANGED resp
    /\ UNCHANGED <<provider, providedImageBytes, tempImageID, deferred, webpBytes, localSaves, deleteWarnings, stagedID>>
    /\ UNCHANGED <<netVars, adapterVars, fixedVars>>

\* a provider that needs a URL gets the image staged on the host; the
\* staged image is never deleted
API_Stage ==
    /\ pc = "stage" /\ req.entry = "api"
    /\ IF imageHostClient = NilClient
       THEN /\ APIReturn(ErrorResp(500, "hosting_not_configured"))
            /\ UNCHANGED <<hostUploads, input, stagedID>>
       ELSE \E u \in UploadResponses :
         /\ hostUploads' = Append(hostUploads, input.ImageBytes)
         /\ IF ~u.ok
            THEN APIReturn(ErrorResp(500, "upload_temp")) /\ UNCHANGED <<input, stagedID>>
            ELSE /\ input' = [input EXCEPT !.ImageURL = u.Direct]
                 /\ stagedID' = u.ImageID
                 /\ pc' = "precheck"
                 /\ UNCHANGED resp
    /\ UNCHANGED <<provider, providedImageBytes, tempImageID, deferred, webpBytes, localSaves, deleteWarnings>>
    /\ UNCHANGED <<downloads, hostDeletes, submitted, adapterVars, fixedVars>>

\* step 5: the image_url check of the two Dreamifly edit models, then the call
API_Precheck ==
    /\ pc = "precheck" /\ req.entry = "api"
    /\ IF req.model \in HGEditModels /\ req.imageUrl = ""
       THEN APIReturn(ErrorResp(400, "requires_image")) /\ UNCHANGED generateCalls
       ELSE /\ pc' = "generate"
            /\ generateCalls' = Append(generateCalls, input)
            /\ UNCHANGED resp
    /\ UNCHANGED <<input, provider, providedImageBytes, tempImageID, deferred, webpBytes, localSaves, deleteWarnings, stagedID>>
    /\ UNCHANGED <<netVars, genOut, genErr, i, msPolls, lastPoll, pollHist, paFailures, outURL, fixedVars>>

\* the provider's error or empty output ends the request
API_AfterGenerate ==
    /\ pc = "returned" /\ req.entry = "api"
    /\ IF genErr # NoErr
       THEN APIReturn(ErrorResp(500, "provider_error"))
       ELSE IF BytesLen0(genOut)
       THEN APIReturn(ErrorResp(500, "no_image_data"))
       ELSE pc' = "convert" /\ UNCHANGED resp
    /\ GenFrameGone
    /\ UNCHANGED <<input, provider, providedImageBytes, tempImageID, deferred, webpBytes, localSaves, deleteWarnings, stagedID>>
    /\ UNCHANGED <<netVars, genOut, genErr, generateCalls, fixedVars>>

\* step 6: convert to WebP and always keep a local copy
API_Convert ==
    /\ pc = "convert" /\ req.entry = "api"
    /\ webpBytes' = FinalBytes(genOut)
    /\ localSaves' = Append(localSaves, FinalBytes(genOut))
    /\ pc' = "deliver"
    /\ UNCHANGED <<input, provider, providedImageBytes, tempImageID, deferred, resp, deleteWarnings, stagedID>>
    /\ UNCHANGED <<netVars, adapterVars, fixedVars>>

\* step 7: always upload the output and answer with its URL
API_Deliver ==
    /\ pc = "deliver" /\ req.entry = "api"
    /\ IF imageHostClient = NilClient
       THEN APIReturn(ErrorResp(500, "hosting_not_configured")) /\ UNCHANGED hostUploads
       ELSE \E u \in UploadResponses :
         /\ hostUploads' = Append(hostUploads, webpBytes)
         /\ IF u.ok
            THEN APIReturn(UrlResp(u.Direct))
            ELSE APIReturn(ErrorResp(500, "upload_final"))
    /\ UNCHANGED <<input, provider, providedImageBytes, tempImageID, deferred, webpBytes, localSaves, deleteWarnings, stagedID>>
    /\ UNCHANGED <<downloads, hostDeletes, submitted, adapterVars, fixedVars>>

\* ------------------------------------------------------------------------
\* APIKeyAuthMiddleware, handleGetModels, handleOptimizePrompt
\* ------------------------------------------------------------------------

\* the handlers other than the two generate handlers leave all of the
\* generation state alone
auxUnchanged ==
    UNCHANGED <<input, provider, providedImageBytes, tempImageID, deferred, webpBytes,
                stagedID, localSaves, deleteWarnings, netVars, adapterVars>>

\* strings.ToLower on the words a header is made of
ToLower(w) ==
    CASE w \in {"Bearer", "bearer", "BEARER"} -> "bearer"
      [] w \in {"Secret", "secret"} -> "secret"
      [] w = "Basic" -> "basic"
      [] OTHER -> w

\* KeyMatches comparing without regard to case
KeyMatchesAnyCase(apiKey, providedKey) == ToLower(providedKey) = ToLower(apiKey)

\* the comparison of the key of the header with the configured key
KeyMatches(apiKey, providedKey) == providedKey = apiKey

\* the middleware in front of every /api/v1/ route
APIKeyAuthMiddleware ==
    /\ pc = "auth" /\ req.entry \in ApiV1Routes
    /\ LET apiKey == env.IMAGEAPI_API_KEY IN
       IF apiKey = ""
       THEN resp' = ErrorResp(503, "api_not_configured") /\ pc' = "done"
       ELSE IF req.auth = <<>>
       THEN resp' = ErrorResp(401, "auth_required") /\ pc' = "done"
       ELSE IF Len(req.auth) # 2 \/ ToLower(req.auth[1]) # "bearer"
       THEN resp' = ErrorResp(401, "auth_format") /\ pc' = "done"
       ELSE IF ~KeyMatches(apiKey, req.auth[2])
       THEN resp' = ErrorResp(401, "auth_key") /\ pc' = "done"
       ELSE pc' = HandlerOf(req.entry) /\ UNCHANGED resp
    /\ auxUnchanged
    /\ UNCHANGED fixedVars

\* the orders in which a range loop may visit the keys of a map, each once
RangeOrders(keys) ==
    { order \in [1..Cardinality(keys) -> keys] :
        \A a, b \in 1..Cardinality(keys) : a # b => order[a] # order[b] }

\* the ProviderInfo handleGetModels builds for one registered provider
ProviderInfo(name) ==
    [Provider |-> name,
     Models |-> [k \in 1..Len(GetModels(name)) |->
                   [Name |-> FullName(name, GetModels(name)[k].Name),
                    SupportedParams |-> GetModels(name)[k].SupportedParams,
                    MaxWidth |-> GetModels(name)[k].MaxWidth,
                    MaxHeight |-> GetModels(name)[k].MaxHeight]]]

\* handleGetModels that drops the provider it has listed from the registry
handleGetModelsDropping ==
    /\ pc = "models" /\ req.entry \in ModelsEntries
    /\ \E order \in RangeOrders(providerRegistry) :
         resp' = JsonResp([k \in 1..Len(order) |-> ProviderInfo(order[k])])
    /\ providerRegistry' = providerRegistry \ {Pollinations}
    /\ pc' = "done"
    /\ auxUnchanged
    /\ UNCHANGED <<env, req, conc, web>>

\* handleGetModels (and handleAPIGetModels, which only calls it): one
\* ProviderInfo per entry of the registry, in the map's order
handleGetModels ==
    /\ pc = "models" /\ req.entry \in ModelsEntries
    /\ \E order \in RangeOrders(providerRegistry) :
         resp' = JsonResp([k \in 1..Len(order) |-> ProviderInfo(order[k])])
    /\ pc' = "done"
    /\ auxUnchanged
    /\ UNCHANGED fixedVars

\* DreamiflyProvider.OptimizePrompt: an error (transport, status other than
\* 200, undecodable body, success false) or the optimized prompt
OptimizeResponses == { [ok |-> FALSE, text |-> ""], [ok |-> TRUE, text |-> "a better cat"],
                       [ok |-> TRUE, text |-> ""] }

\* handleOptimizePrompt
handleOptimizePrompt ==
    /\ pc = "optimize" /\ req.entry = OptimizeEntry
    /\ IF req.method # "POST"
       THEN resp' = ErrorResp(405, "method")
       ELSE \E readOk \in BOOLEAN :
              IF ~readOk
              THEN resp' = ErrorResp(500, "read_body")
              ELSE IF ~req.bodyOk
              THEN resp' = ErrorResp(400, "json")
              ELSE IF Dreamifly \notin providerRegistry
              THEN resp' = ErrorResp(500, "dreamifly_unavailable")
              ELSE \E o \in OptimizeResponses :
                     resp' = IF o.ok THEN JsonResp(o.text) ELSE ErrorResp(500, "optimize")
    /\ pc' = "done"
    /\ auxUnchanged
    /\ UNCHANGED fixedVars

\* the middleware in front of the index page: without a web password every
\* client passes; with one, a client whose session is not authenticated is
\* sent to /login
WebAuthMiddleware ==
    /\ pc = "webauth" /\ req.entry \in WebAuthRoutes
    /\ IF web.password = ""
       THEN pc' = HandlerOf(req.entry) /\ UNCHANGED resp
       ELSE IF ~web.authenticated
       THEN resp' = RedirectResp("/login") /\ pc' = "done"
       ELSE pc' = HandlerOf(req.entry) /\ UNCHANGED resp
    /\ auxUnchanged
    /\ UNCHANGED fixedVars

\* serveIndex: http.ServeFile of the page, or 404 when the file is missing
serveIndex ==
    /\ pc = "index" /\ req.entry = IndexEntry
    /\ \E found \in BOOLEAN :
         resp' = IF found THEN FileResp("templates/index.html") ELSE ErrorResp(404, "not_found")
    /\ pc' = "done"
    /\ auxUnchanged
    /\ UNCHANGED fixedVars

\* ------------------------------------------------------------------------
\* Specification
\* ------------------------------------------------------------------------

Next ==
    \/ HG_Validate \/ HG_ImageInput \/ HG_Process \/ HG_Stage \/ HG_Precheck
    \/ HG_AfterGenerate \/ HG_Convert \/ HG_Deliver \/ HG_Deferred
    \/ API_Validate \/ API_ImageInput \/ API_Process \/ API_Stage \/ API_Precheck
    \/ API_AfterGenerate \/ API_Convert \/ API_Deliver
    \/ DreamiflyGenerate
    \/ Fal_Submit \/ Fal_Download
    \/ MS_Submit \/ MS_Poll \/ MS_Timeout \/ MS_Download
    \/ PA_Start \/ PA_Attempt
    \/ APIKeyAuthMiddleware \/ handleGetModels \/ handleOptimizePrompt
    \/ WebAuthMiddleware \/ serveIndex

Spec == Init /\ [][Next]_vars

\* The web form's requests for the ModelScope models, with and without an
\* input image, followed through handleGenerate and ModelScopeProvider.Generate.
\* A request is served by one goroutine that runs on as long as each of its
\* calls returns: a step that can be taken is taken in the end.
MSRequests ==
    { r \in Requests : r.entry = "web" /\ r.model \in ListedNames(Modelscope) /\ r.prompt = "a cat"
                          /\ r.width = Unset /\ r.seed = Unset }

MSInit == Init /\ req \in MSRequests

MSNext ==
    \/ HG_Validate \/ HG_ImageInput \/ HG_Process \/ HG_Stage \/ HG_Precheck
    \/ HG_AfterGenerate \/ HG_Convert \/ HG_Deliver \/ HG_Deferred
    \/ MS_Submit \/ MS_Poll \/ MS_Timeout \/ MS_Download

FairSpec == MSInit /\ [][MSNext]_vars /\ WF_vars(MSNext)

\* ------------------------------------------------------------------------
\* Two requests in handleGenerate at the same time
\* ------------------------------------------------------------------------
\* Each request runs handleGenerate in a goroutine of its own, with the
\* handler's locals (providedImageBytes, input, tempImageID, output,
\* webpBytes) to itself. What the two share is the registry, the
\* imageHostClient and the image host behind it: conc.stored are the images
\* on the host, each under the ID the host gave it, conc.uploaded and
\* conc.deleted the uploads and deletes the host was sent. The host gives
\* every upload an ID of its own.

Rq == {1, 2}

ConcImage(r) == Image("png", 100 * r, 100)

\* the local state of request r after step 2a: its normalized input image
\* (or none), its adapter
ConcStart(r, p, withImage) ==
    [pc |-> "stage", provider |-> p,
     ImageBytes |-> IF withImage THEN processImage(ConcImage(r), DefaultSizeLimit).bytes ELSE NoBytes,
     ImageURL |-> 0, tempImageID |-> 0, deferred |-> FALSE,
     answers |-> <<>>, webpBytes |-> NoBytes, resp |-> NoResp]

ConcInit ==
    /\ Init
    /\ env = CHOOSE e \in Envs : e.FAL_API_KEY # "" /\ e.UPLOAD_TO_IMAGE_HOST = ""
    /\ req = BaseReq

\* UploadImage by request r: the host stores the bytes under a new ID
HostUpload(c, r, bytes, kind) ==
    [c EXCEPT !.issued = c.issued + 1,
              !.uploaded = Append(c.uploaded, [by |-> r, kind |-> kind]),
              !.stored = c.stored \cup {[id |-> c.issued + 1, bytes |-> bytes, by |-> r, kind |-> kind]}]

\* DeleteImage(id) by request r
HostDelete(c, r, id) ==
    [c EXCEPT !.stored = {im \in c.stored : im.id # id},
              !.deleted = Append(c.deleted, [by |-> r, id |-> id])]

\* a return statement of request r, the response written
ConcReturn(c, r, written) ==
    [c EXCEPT !.rq[r].resp = written,
              !.rq[r].pc = IF c.rq[r].deferred THEN "cleanup" ELSE "done"]

\* the two requests arrive
C_Arrive ==
    /\ conc = NoConc
    /\ \E p1, p2 \in {Dreamifly, FalAI}, w1, w2 \in BOOLEAN :
         conc' = [NoConc EXCEPT !.rq = <<ConcStart(1, p1, w1), ConcStart(2, p2, w2)>>]
    /\ UNCHANGED <<handlerVars, netVars, adapterVars, env, providerRegistry, req, web, pc>>

\* step 2b of request r: staging for an adapter that takes its image by URL
C_Stage(r) ==
    /\ conc # NoConc /\ conc.rq[r].pc = "stage"
    /\ LET me == conc.rq[r] IN
       IF BytesLen0(me.ImageBytes) \/ ~RequiresImageURL(me.provider)
       THEN conc' = [conc EXCEPT !.rq[r].pc = "generate"]
       ELSE \E ok \in BOOLEAN :
              conc' = IF ok
                      THEN [HostUpload(conc, r, me.ImageBytes, "staging") EXCEPT
                              !.rq[r].ImageURL = conc.issued + 1,
                              !.rq[r].tempImageID = conc.issued + 1,
                              !.rq[r].deferred = TRUE,
                              !.rq[r].answers = Append(me.answers, "staged"),
                              !.rq[r].pc = "generate"]
                      ELSE ConcReturn([conc EXCEPT !.rq[r].answers = Append(me.answers, "stage_failed")],
                                      r, ErrorResp(500, "upload_temp"))
    /\ UNCHANGED <<handlerVars, netVars, adapterVars, env, providerRegistry, req, web, pc>>

\* what is found under the URL the adapter of request r hands upstream
AtURL(c, r) == {im.bytes : im \in {x \in c.stored : x.id = c.rq[r].ImageURL}}

\* step 3 of request r: provider.Generate, which edits the image of the
\* request (for FalAI: the image upstream finds under the URL) or, without
\* an image, draws one
C_Generate(r) ==
    /\ conc # NoConc /\ conc.rq[r].pc = "generate"
    /\ LET me == conc.rq[r] IN
       IF me.provider = FalAI /\ me.ImageURL = 0
       THEN conc' = ConcReturn(conc, r, ErrorResp(500, "provider_error"))
       ELSE \E ok \in BOOLEAN :
              LET source == IF me.provider = FalAI THEN AtURL(conc, r) ELSE {me.ImageBytes}
                  withAnswer == [conc EXCEPT !.rq[r].answers = Append(me.answers, IF ok THEN "generated" ELSE "generate_failed")]
              IN
              IF ~ok \/ source = {}
              THEN conc' = ConcReturn(withAnswer, r, ErrorResp(500, "provider_error"))
              ELSE \E b \in source :
                     conc' = [withAnswer EXCEPT
                                !.rq[r].webpBytes = FinalBytes(IF BytesLen0(b) THEN OutPng ELSE b),
                                !.rq[r].pc = "deliver"]
    /\ UNCHANGED <<handlerVars, netVars, adapterVars, env, providerRegistry, req, web, pc>>

\* step 7 of request r: the output uploaded to the host, its URL returned
C_Deliver(r) ==
    /\ conc # NoConc /\ conc.rq[r].pc = "deliver"
    /\ LET me == conc.rq[r] IN
       \E ok \in BOOLEAN :
         conc' = IF ok
                 THEN ConcReturn([HostUpload(conc, r, me.webpBytes, "output") EXCEPT
                                     !.rq[r].answers = Append(me.answers, "delivered")],
                                 r, UrlResp(conc.issued + 1))
                 ELSE ConcReturn([conc EXCEPT !.rq[r].answers = Append(me.answers, "deliver_failed")],
                                 r, ErrorResp(500, "upload_final"))
    /\ UNCHANGED <<handlerVars, netVars, adapterVars, env, providerRegistry, req, web, pc>>

\* C_Deferred deleting whichever staged image it finds on the host
C_DeferredAny(r) ==
    /\ conc # NoConc /\ conc.rq[r].pc = "cleanup"
    /\ \E im \in {x \in conc.stored : x.kind = "staging"} :
         conc' = [HostDelete(conc, r, im.id) EXCEPT !.rq[r].pc = "done"]
    /\ UNCHANGED <<handlerVars, netVars, adapterVars, env, providerRegistry, req, web, pc>>

\* the deferred function of request r: DeleteImage(tempImageID)
C_Deferred(r) ==
    /\ conc # NoConc /\ conc.rq[r].pc = "cleanup"
    /\ conc' = IF conc.rq[r].tempImageID # 0
               THEN [HostDelete(conc, r, conc.rq[r].tempImageID) EXCEPT !.rq[r].pc = "done"]
               ELSE [conc EXCEPT !.rq[r].pc = "done"]
    /\ UNCHANGED <<handlerVars, netVars, adapterVars, env, providerRegistry, req, web, pc>>

ConcNext ==
    \/ C_Arrive
    \/ \E r \in Rq : C_Stage(r)
    \/ \E r \in Rq : C_Generate(r)
    \/ \E r \in Rq : C_Deliver(r)
    \/ \E r \in Rq : C_Deferred(r)

ConcSpec == ConcInit /\ [][ConcNext]_vars

\* ------------------------------------------------------------------------
\* Properties
\* ------------------------------------------------------------------------

Range(seq) == {seq[k] : k \in 1..Len(seq)}

\* the capability the registry declares for model m of provider p
HasCap(p, m) == \E k \in 1..Len(GetModels(p)) : GetModels(p)[k].Name = m
CapOf(p, m) == GetModels(p)[CHOOSE k \in 1..Len(GetModels(p)) : GetModels(p)[k].Name = m]

\* the handler is left
Done == pc = "done"

\* the adapter's Generate has returned and the handler has not yet taken the result
Returned == pc = "returned"

\* --- C1 ------------------------------------------------------------------
\* C1 as stated: whenever staging succeeded with a non-empty image ID, the
\* host delete of that ID has been invoked exactly once when the request
\* finishes, on both generate entry points.
C1_DeleteOnceBothEntries ==
    (Done /\ stagedID # "") => hostDeletes = <<stagedID>>

\* C1 amended: on handleGenerate the delete of a staged image with a
\* non-empty ID is invoked exactly once before the request finishes, on
\* every exit path; handleAPIGenerate never invokes the host delete; no
\* request deletes anything but its own staged image, or more than once.
C1_DeleteOnceWebNeverApi ==
    /\ Len(hostDeletes) <= 1
    /\ Range(hostDeletes) \subseteq {stagedID} \ {""}
    /\ Done => IF req.entry = "web" /\ stagedID # ""
               THEN hostDeletes = <<stagedID>>
               ELSE hostDeletes = <<>>

\* a web request whose adapter failed after staging, with the delete done
C1_Witness ==
    Done /\ req.entry = "web" /\ stagedID # "" /\ genErr # NoErr /\ hostDeletes = <<stagedID>>

C4_Non200Skipped ==
    lastPoll.http = "status"
      => /\ msPolls = i
         /\ \/ pc = "ms_poll" /\ i < 90 /\ ENABLED MS_Poll
            \/ pc = "ms_poll" /\ i = 90 /\ ~ENABLED MS_Poll
            \/ Returned /\ i = 90 /\ genErr.kind = "ms_timeout"

\* a non-200 poll in the middle of the budget, polling goes on
C4_Witness ==
    lastPoll.http = "status" /\ pc = "ms_poll" /\ msPolls = 45

\* --- C5 ------------------------------------------------------------------
\* C5: the poll that reports FAILED or CANCELED ends Generate with an error
\* that carries the backend's message; no poll and no download follows.
C5_FailedEndsCall ==
    (lastPoll.http = "ok" /\ lastPoll.status \in {"FAILED", "CANCELED"})
      => /\ Returned
         /\ genErr.kind = "ms_task_failed"
         /\ genOut = NoBytes
         /\ lastPoll.message # "" => lastPoll.message \in Range(genErr.info)
         /\ msPolls = i + 1
         /\ \A k \in 1..Len(downloads) : downloads[k].url = req.imageUrl

\* a canceled task with a message, reported to the caller of Generate
C5_Witness ==
    Returned /\ lastPoll.status = "CANCELED" /\ lastPoll.message = "quota exceeded"
        /\ "quota exceeded" \in Range(genErr.info) /\ msPolls > 1

\* --- C6 ------------------------------------------------------------------
\* C6: the retrying adapter sends at most 4 requests, retries every failed
\* attempt until 4 were made, sends nothing after the first 200, and when
\* all 4 failed returns an error carrying the failure of the 4th.
C6_RetryBudget ==
    provider = Pollinations
      => /\ Len(submitted) <= 4
         /\ pc = "pa_attempt" => (Len(submitted) = i /\ Len(paFailures) = i /\ i < 4)
         /\ Returned =>
              \/ genErr.kind = "pa_requires_image_url" /\ submitted = <<>>
              \/ /\ Len(paFailures) = Len(submitted) - 1
                 /\ genErr.kind \in {"", "pa_read"}
              \/ /\ Len(paFailures) = 4 /\ Len(submitted) = 4
                 /\ genErr.kind \in {"pa_call_failed", "pa_giving_up"}
                 /\ genErr.info = <<paFailures[4]>>

\* four failed attempts, the first unlike the fourth
C6_Witness ==
    Returned /\ provider = Pollinations /\ Len(paFailures) = 4
        /\ paFailures[1] # paFailures[4] /\ genErr.info = <<paFailures[4]>>

\* --- C7 ------------------------------------------------------------------
\* a width or height that is unset, zero or not parseable as an integer
NoUsableDim(raw) == raw.k \in {"unset", "nan", "big"} \/ raw = Num(0)

\* C7: every GenerationInput handed to an adapter has width 1024 when the
\* request's width is unset, zero or not parseable as an integer, and
\* likewise for height, on both entry points.
C7_DefaultDims ==
    \A k \in 1..Len(generateCalls) :
        /\ NoUsableDim(req.width) => generateCalls[k].Width = 1024
        /\ NoUsableDim(req.height) => generateCalls[k].Height = 1024

\* --- C8 ------------------------------------------------------------------
\* C8: the width and height handed to an adapter never exceed the MaxWidth
\* and MaxHeight the registry declares for the chosen model.
C8_DimsClamped ==
    \A k \in 1..Len(generateCalls) :
        HasCap(provider, generateCalls[k].Model)
          => /\ generateCalls[k].Width <= CapOf(provider, generateCalls[k].Model).MaxWidth
             /\ generateCalls[k].Height <= CapOf(provider, generateCalls[k].Model).MaxHeight

\* --- C9 ------------------------------------------------------------------
\* the models whose capability lists the "image" parameter
EditNames ==
    UNION { { FullName(p, GetModels(p)[k].Name) :
                k \in { n \in 1..Len(GetModels(p)) : "image" \in GetModels(p)[n].SupportedParams } } :
            p \in AllProviders }

\* C9: a request for an edit model of a registered provider that carries
\* neither image bytes nor an image URL sends nothing to any upstream
\* provider or to the image host, and ends in an error response.
C9_EditNeedsImage ==
    (req.model \in EditNames /\ req.file = FileMissing /\ req.imageUrl = "")
      => /\ submitted = <<>>
         /\ hostUploads = <<>>
         /\ hostDeletes = <<>>
         /\ downloads = <<>>
         /\ msPolls = 0
         /\ Done => resp.kind = "error"

\* --- C10 -----------------------------------------------------------------
\* what an upstream generation request carries
CarriesImage(w) ==
    \/ Len(w.images) > 0
    \/ w.image_url # "" /\ w.fields \cap {"image", "image_url", "image_urls"} # {}
CarriesSeed(w) == "seed" \in w.fields
CarriesSteps(w) == "steps" \in w.fields

\* C10: an upstream generation request carries an image, a seed or steps
\* only if the SupportedParams of the chosen model contain that parameter.
C10_OnlySupportedParamsForwarded ==
    \A k \in 1..Len(submitted) :
        HasCap(submitted[k].to, submitted[k].model)
          => LET sp == CapOf(submitted[k].to, submitted[k].model).SupportedParams IN
             /\ CarriesImage(submitted[k]) => "image" \in sp
             /\ CarriesSeed(submitted[k]) => "seed" \in sp
             /\ CarriesSteps(submitted[k]) => "steps" \in sp

\* --- C11 -----------------------------------------------------------------
\* C11 as stated: no GenerationInput passed to an adapter holds both image
\* bytes and an image URL.
C11_BytesXorUrl ==
    \A k \in 1..Len(generateCalls) :
        BytesLen0(generateCalls[k].ImageBytes) \/ generateCalls[k].ImageURL = ""

\* C11 amended: a GenerationInput passed to an adapter holds an image URL
\* only when the adapter is one of the by-URL adapters and staging uploaded
\* the processed bytes; it then holds both the URL and those bytes, and
\* the bytes are the ones that were staged.
C11_UrlOnlyWithStagedBytes ==
    \A k \in 1..Len(generateCalls) :
        generateCalls[k].ImageURL # ""
          => /\ provider \in {FalAI, Modelscope, Pollinations}
             /\ ~BytesLen0(generateCalls[k].ImageBytes)
             /\ Len(hostUploads) >= 1
             /\ hostUploads[1] = generateCalls[k].ImageBytes

\* an adapter called with both the staged URL and the bytes
C11_Witness ==
    /\ Len(generateCalls) = 1
    /\ generateCalls[1].ImageURL # ""
    /\ ~BytesLen0(generateCalls[1].ImageBytes)

\* --- C12 -----------------------------------------------------------------
\* C12: when convertToWebP fails on the provider's non-empty output, the
\* bytes carried into delivery are the provider's bytes, and the request
\* fails only if the upload of those bytes fails.
C12_ConvertFallsBack ==
    (genErr = NoErr /\ ~BytesLen0(genOut) /\ ~convertToWebP(genOut).ok)
      => /\ pc \in {"returned", "convert", "deliver", "cleanup", "done"}
         /\ pc = "deliver" => webpBytes = genOut
         /\ (pc \in {"cleanup", "done"} /\ resp.kind = "bytes") => resp.bytes = genOut
         /\ (pc \in {"cleanup", "done"} /\ resp.kind = "url") => hostUploads[Len(hostUploads)] = genOut
         /\ (pc \in {"cleanup", "done"} /\ resp.kind = "error")
               => (resp.err = "upload_final" /\ hostUploads[Len(hostUploads)] = genOut)

\* undecodable provider output delivered inline as it came
C12_Witness ==
    Done /\ genOut = Garbage /\ resp.kind = "bytes" /\ resp.bytes = Garbage

\* --- C13 -----------------------------------------------------------------
\* the deployment asks for inline delivery
InlinePolicy == env.UPLOAD_TO_IMAGE_HOST \in {"false", "False", "FALSE"}

\* uploads to the host made for staging the input image
StagingUploads ==
    IF provider \in AllProviders /\ RequiresImageURL(provider) /\ ~BytesLen0(input.ImageBytes)
    THEN 1 ELSE 0

Succeeded == Done /\ req.entry \in Entries /\ resp.code = 200

\* C13 as stated: on both entry points a successful request returns the
\* bytes inline without uploading them when the policy is inline, and
\* uploads them and returns the URL otherwise.
C13_DeliveryByPolicy ==
    Succeeded =>
        IF InlinePolicy
        THEN resp.kind = "bytes" /\ Len(hostUploads) = StagingUploads
        ELSE resp.kind = "url" /\ Len(hostUploads) = StagingUploads + 1

\* C13 amended: on handleGenerate the delivery mode of a successful request
\* is decided by the policy flag alone; handleAPIGenerate always uploads
\* the output and returns its URL, whatever the flag.
C13_DeliveryByPolicyWebOnly ==
    Succeeded =>
        IF req.entry = "web" /\ InlinePolicy
        THEN resp.kind = "bytes" /\ resp.bytes = webpBytes /\ Len(hostUploads) = StagingUploads
        ELSE /\ resp.kind = "url"
             /\ Len(hostUploads) = StagingUploads + 1
             /\ hostUploads[Len(hostUploads)] = webpBytes

\* inline delivery under a flag spelled with a capital letter
C13_Witness ==
    Succeeded /\ req.entry = "web" /\ env.UPLOAD_TO_IMAGE_HOST = "False" /\ resp.kind = "bytes"

\* --- C14 -----------------------------------------------------------------
\* a model identifier of the form provider/model with both parts non-empty
WellFormedName(full) ==
    \E p \in 2..(Len(full) - 1) : full[p] = Slash /\ \A q \in 1..(p - 1) : full[q] # Slash

\* the part of a well-formed identifier before its first "/"
ProviderPart(full) ==
    SubSeq(full, 1, (CHOOSE p \in 2..(Len(full) - 1) :
                        full[p] = Slash /\ \A q \in 1..(p - 1) : full[q] # Slash) - 1)

RejectedName(full) == ~WellFormedName(full) \/ ProviderPart(full) \notin providerRegistry

\* the API key middleware has answered the request in the handler's place
Refused == resp.err \in {"api_not_configured", "auth_required", "auth_format", "auth_key"}

\* C14: a generate request whose model identifier is malformed or names a
\* provider that is not registered is answered with a client error by the
\* handler it reaches, and nothing is downloaded, staged or handed to an
\* adapter for it.
C14_BadModelRejectedEarly ==
    (req.entry \in Entries /\ RejectedName(req.model))
      => /\ pc \in {"auth", "validate", "done"}
         /\ downloads = <<>> /\ hostUploads = <<>> /\ hostDeletes = <<>>
         /\ generateCalls = <<>> /\ submitted = <<>>
         /\ Done => (resp.kind = "error" /\ (Refused \/ resp.code \in {400, 405}))

\* an identifier with an empty model part, sent with an image URL, rejected
C14_Witness ==
    Done /\ req.model = <<"Dreamifly", Slash>> /\ req.imageUrl # "" /\ req.method = "POST"
         /\ resp.code = 400 /\ downloads = <<>>

\* --- C15 -----------------------------------------------------------------
\* C15: an adapter's Generate is only ever called with a model name of the
\* adapter's own GetModels list.
C15_OnlyListedModels ==
    \A k \in 1..Len(generateCalls) : HasCap(provider, generateCalls[k].Model)

\* --- C16 -----------------------------------------------------------------
\* C16: a request with an empty prompt is answered with an error and
\* nothing is downloaded, staged or sent to an adapter for it.
C16_EmptyPromptRejected ==
    req.prompt = ""
      => /\ downloads = <<>> /\ hostUploads = <<>>
         /\ generateCalls = <<>> /\ submitted = <<>>
         /\ Done => resp.kind = "error"

\* --- C17 -----------------------------------------------------------------
\* C17: with NODEIMAGE_API_KEY empty no upload request is sent to the image
\* host, and a request that got as far as needing the host ends with the
\* hosting-unavailable error.
C17_NoUploadWithoutCredentials ==
    env.NODEIMAGE_API_KEY = ""
      => /\ hostUploads = <<>>
         /\ ~(Done /\ resp.kind = "url")
         /\ (Done /\ StagingUploads = 1) => resp.err = "hosting_not_configured"

\* --- C18 -----------------------------------------------------------------
\* C18: the staging cleanup leaves the response as it was written before
\* the delete, whether the delete succeeds or fails; it only ends the request.
C18_DeleteFailureNotPropagated ==
    [][pc = "cleanup" => (resp' = resp /\ pc' = "done")]_vars

\* a successful request whose staged image could not be deleted
C18_Witness ==
    Done /\ deleteWarnings > 0 /\ hostDeletes = <<stagedID>> /\ resp.code = 200

\* --- C19 -----------------------------------------------------------------
\* C19: a request calls Generate at most once, on the adapter the registry
\* gave for the request's provider; every upstream generation request comes
\* from that adapter, and only Pollinations sends more than one.
C19_OneAdapterOneCall ==
    /\ Len(generateCalls) <= 1
    /\ \A k \in 1..Len(submitted) : generateCalls # <<>> /\ submitted[k].to = provider
    /\ provider # Pollinations => Len(submitted) <= 1
    /\ generateCalls # <<>> => (WellFormedName(req.model) /\ provider = ProviderPart(req.model))

\* an adapter that failed after its one upstream request, the request over
C19_Witness ==
    Done /\ provider = Dreamifly /\ genErr # NoErr /\ Len(generateCalls) = 1 /\ Len(submitted) = 1

\* --- C20 -----------------------------------------------------------------
\* the phase a position of a generate request belongs to: 1 validating (with
\* the admission by the API key, reading and shrinking the input image), 2 staging, 3 calling-provider, 4
\* post-processing, 5 delivering, 6 over (done or aborted, with the cleanup)
Phase(at) ==
    CASE at \in {"auth", "validate", "image_input", "process"} -> 1
      [] at = "stage" -> 2
      [] at \in {"precheck", "generate", "fal_download", "ms_poll", "ms_download",
                 "pa_attempt", "returned"} -> 3
      [] at = "convert" -> 4
      [] at = "deliver" -> 5
      [] at \in {"cleanup", "done"} -> 6

\* C20: every step stays in its phase, moves to the next one, skips the
\* optional staging, or ends the request; a request ends without an error
\* only out of delivering; an error response ends it at once; and after
\* the response nothing but the staging cleanup happens.
C20_PhaseOrder ==
    [][ req.entry \in Entries =>
        /\ \/ Phase(pc') \in {Phase(pc), Phase(pc) + 1, 6}
           \/ Phase(pc) = 1 /\ Phase(pc') = 3
        /\ (Phase(pc) # 6 /\ Phase(pc') = 6 /\ resp'.kind # "error") => Phase(pc) = 5
        /\ (resp = NoResp /\ resp' # NoResp) => Phase(pc') = 6
        /\ Phase(pc) = 6 =>
              /\ Phase(pc') = 6
              /\ UNCHANGED <<resp, generateCalls, submitted, downloads, hostUploads,
                             webpBytes, localSaves, genOut, genErr>>
      ]_vars

\* a request aborted in calling-provider after staging, the cleanup done
C20_Witness ==
    Done /\ resp.kind = "error" /\ resp.err = "provider_error" /\ stagedID # ""
         /\ hostDeletes = <<stagedID>> /\ webpBytes = NoBytes

\* --- C21 -----------------------------------------------------------------
\* the size bound a request configures: its positive input_size_limit on
\* the web form, 1024 otherwise
ConfiguredBound ==
    IF req.entry = "web" /\ req.sizeLimit.k = "num" /\ req.sizeLimit.n > 0
    THEN req.sizeLimit.n
    ELSE 1024

LongerEdge(img) == IF img.w > img.h THEN img.w ELSE img.h

\* C21: the image input normalization puts into the GenerationInput has
\* its longer edge at most the configured bound, and equal to it when the
\* caller's image exceeded the bound.
C21_LongerEdgeBounded ==
    ~BytesLen0(input.ImageBytes)
      => /\ LongerEdge(input.ImageBytes) <= ConfiguredBound
         /\ LongerEdge(BigPng) > ConfiguredBound => LongerEdge(input.ImageBytes) = ConfiguredBound

\* --- C22 -----------------------------------------------------------------
\* adapter errors that report what the caller left out, not an upstream failure
CallerFaultKinds == {"fal_image_url_required", "pa_requires_image_url"}

\* C22: a request that failed on the caller's input is answered 4xx, a
\* request that failed on an upstream provider is answered 5xx.
C22_StatusClass ==
    (Done /\ resp.kind = "error")
      => /\ resp.err \in {"method", "form", "json", "required_fields", "model_format",
                          "provider_not_found", "form_file", "download", "requires_image"}
              => resp.code \in 400..499
         /\ (resp.err = "provider_error" /\ genErr.kind \in CallerFaultKinds)
              => resp.code \in 400..499
         /\ (resp.err = "provider_error" /\ genErr.kind \notin CallerFaultKinds)
              => resp.code \in 500..599

\* --- C23 -----------------------------------------------------------------
\* the handler behind the middleware has been entered
HandlerEntered == req.entry \in ApiV1Routes /\ pc # "auth" /\ ~Refused

\* nothing a handler does has happened
NothingDone ==
    /\ downloads = <<>> /\ hostUploads = <<>> /\ hostDeletes = <<>>
    /\ generateCalls = <<>> /\ submitted = <<>> /\ localSaves = <<>>
    /\ resp.kind \in {"", "error"}

\* C23: a request to a /api/v1/ route enters its handler only if
\* IMAGEAPI_API_KEY is configured and the Authorization header is the word
\* Bearer (in any letter case), one space and exactly the configured key;
\* a request that is refused gets 401 or 503 and no handler does anything
\* for it; with no key configured every /api/v1/ request is refused with 503.
C23_HandlerOnlyWithKey ==
    req.entry \in ApiV1Routes =>
        /\ HandlerEntered =>
              /\ env.IMAGEAPI_API_KEY # ""
              /\ Len(req.auth) = 2
              /\ req.auth[1] \in {"Bearer", "bearer", "BEARER"}
              /\ req.auth[2] = env.IMAGEAPI_API_KEY
        /\ ~HandlerEntered => NothingDone
        /\ (Done /\ Refused) => resp.code \in {401, 503}
        /\ env.IMAGEAPI_API_KEY = "" =>
              /\ pc \in {"auth", "done"}
              /\ Done => resp = ErrorResp(503, "api_not_configured")

\* the model list served on /api/v1/models to a caller that sent the key
C23_Witness ==
    Done /\ req.entry = "api_models" /\ req.auth = GoodAuth /\ resp.kind = "json"
         /\ resp.body # <<>>

\* --- C24 -----------------------------------------------------------------
\* the input image the request carries: the uploaded file or else what the
\* image URL gave
RequestImage ==
    IF req.file.kind = "ok" THEN req.file.bytes
    ELSE IF req.file.kind = "missing" /\ req.imageUrl # "" /\ downloads # <<>> /\ downloads[1].ok
    THEN downloads[1].bytes
    ELSE NoBytes

\* C24: a generate request that gets to its adapter has uploaded its input
\* image for staging if and only if it carries a non-empty input image and
\* the adapter takes its image by URL; there is at most one staging upload,
\* what it uploads is the normalized (JPEG) image the adapter is given, and
\* the adapter's Generate is not called before the upload has returned.
C24_StagingIffImageAndByUrl ==
    req.entry \in Entries =>
        /\ pc \in {"auth", "validate", "image_input", "process"} => hostUploads = <<>>
        /\ pc \in {"auth", "validate", "image_input", "process", "stage"} => generateCalls = <<>>
        /\ Phase(pc) <= 3 =>
              /\ Len(hostUploads) <= 1
              /\ hostUploads # <<>> =>
                    /\ ~BytesLen0(RequestImage)
                    /\ provider \in {FalAI, Modelscope, Pollinations}
                    /\ hostUploads[1].fmt = "jpeg"
                    /\ hostUploads[1] = input.ImageBytes
        /\ generateCalls # <<>> =>
              /\ (~BytesLen0(RequestImage) /\ provider \in {FalAI, Modelscope, Pollinations})
                    => (hostUploads # <<>> /\ hostUploads[1] = generateCalls[1].ImageBytes)
              /\ (BytesLen0(RequestImage) \/ provider = Dreamifly)
                    => (Phase(pc) <= 3 => hostUploads = <<>>)

\* Generate of a by-URL adapter running on a staged PNG that was shrunk first
C24_Witness ==
    /\ pc = "generate" /\ provider = FalAI /\ req.file = FileOf(BigPng)
    /\ hostUploads = <<Image("jpeg", 1024, 512)>>
    /\ generateCalls[1].ImageURL # ""

\* --- C25 -----------------------------------------------------------------
\* ModelScopeProvider.Generate is running
MSRunning == provider = Modelscope /\ pc \in {"generate", "ms_poll", "ms_download"}

\* the four ways ModelScopeProvider.Generate ends
MSSuccess == genErr = NoErr /\ downloads # <<>> /\ genOut = downloads[Len(downloads)].bytes
MSBackendFailure == genErr.kind = "ms_task_failed"
MSTimedOut == genErr.kind = "ms_timeout"
MSProtocolError ==
    genErr.kind \in {"ms_submit_transport", "ms_submit_status", "ms_submit_decode", "ms_no_task_id",
                     "ms_poll_transport", "ms_poll_read", "ms_poll_badjson", "ms_no_image_url",
                     "ms_download"}

\* C25: every call of ModelScopeProvider.Generate returns in the end, and
\* when it has returned it has ended in exactly one of four ways: success
\* with the downloaded bytes, a failure the backend reported, a protocol or
\* transport error, or the timeout.
C25_GenerateTerminates ==
    /\ MSRunning ~> Returned
    /\ []((Returned /\ provider = Modelscope) =>
            /\ MSSuccess \/ MSBackendFailure \/ MSProtocolError \/ MSTimedOut
            /\ ~(MSSuccess /\ (MSBackendFailure \/ MSProtocolError \/ MSTimedOut))
            /\ MSSuccess \/ genOut = NoBytes)

\* a call that ended in the timeout after polling a pending task throughout
C25_Witness ==
    Returned /\ provider = Modelscope /\ MSTimedOut /\ msPolls = maxPollingAttempts

\* --- C26 -----------------------------------------------------------------
\* time.Sleep(pollingInterval) before every poll, in seconds
pollingInterval == 5

\* the time ModelScopeProvider.Generate has slept in its polling loop
SleptSeconds == msPolls * pollingInterval

\* C26: the polling loop sleeps 5 seconds before each poll, never polls
\* beyond 300 seconds (60 polls), and gives up with the timeout exactly
\* when a task is still unfinished after 300 seconds.
C26_TimeoutAfterFiveMinutes ==
    /\ SleptSeconds <= 300
    /\ msPolls <= 60
    /\ (Returned /\ provider = Modelscope /\ genErr.kind = "ms_timeout") => SleptSeconds = 300

\* --- C27 -----------------------------------------------------------------
\* the adapter's Generate has been called and has not returned
GenerateInProgress == pc \in {"generate", "fal_download", "ms_poll", "ms_download", "pa_attempt"}

\* C27: no host delete is invoked while the adapter's Generate, with all of
\* its polls and retries, is in progress nor before it: a delete is invoked
\* only once the handler has written its response, on the way out, and it
\* is the delete of the image the request staged.
C27_NoDeleteBeforeGenerateReturns ==
    [][ hostDeletes' # hostDeletes =>
          /\ ~GenerateInProgress
          /\ (generateCalls # <<>> => resp # NoResp)
          /\ pc = "cleanup" /\ pc' = "done"
          /\ hostDeletes' = Append(hostDeletes, stagedID)
      ]_vars

\* the staged image deleted after ModelScopeProvider.Generate timed out
C27_Witness ==
    /\ Done /\ provider = Modelscope /\ genErr.kind = "ms_timeout"
    /\ stagedID # "" /\ hostDeletes = <<stagedID>>

\* --- C28 -----------------------------------------------------------------
\* what request r answers, by its own input and the answers to its own calls
ExpectedKind(me) ==
    IF "stage_failed" \in Range(me.answers) THEN "upload_temp"
    ELSE IF me.provider = FalAI /\ BytesLen0(me.ImageBytes) THEN "provider_error"
    ELSE IF "generate_failed" \in Range(me.answers) THEN "provider_error"
    ELSE IF "deliver_failed" \in Range(me.answers) THEN "upload_final"
    ELSE "url"

\* the output of request r: its own image edited, or a drawn one
ExpectedOutput(r, me) ==
    IF BytesLen0(me.ImageBytes) THEN Image("webp", 1024, 1024) ELSE Image("webp", 100 * r, 100)

ListedCaps(listing, p) ==
    { [k \in 1..Len(info.Models) |->
         [SupportedParams |-> info.Models[k].SupportedParams,
          MaxWidth |-> info.Models[k].MaxWidth, MaxHeight |-> info.Models[k].MaxHeight]] :
      info \in {x \in Range(listing) : x.Provider = p} }

\* C29: no step of any handler (generate, v1 generate, list models,
\* optimize prompt) nor of the middleware or an adapter adds, removes or
\* replaces an entry of the provider registry: it stays what
\* initializeProviders made it; and the capability lists a model list shows
\* are those of the registered adapters.
C29_RegistryReadOnly ==
    [][ /\ providerRegistry' = providerRegistry
        /\ providerRegistry' = {Dreamifly, Pollinations}
                                  \cup {p \in {FalAI} : env.FAL_API_KEY # ""}
                                  \cup {p \in {Modelscope} : env.MODELSCOPE_API_KEY # ""}
        /\ (req.entry \in ModelsEntries /\ resp'.kind = "json") =>
              /\ {info.Provider : info \in Range(resp'.body)} = providerRegistry
              /\ ListedCaps(resp'.body, Pollinations)
                    = { <<[SupportedParams |-> {"seed"}, MaxWidth |-> 1024, MaxHeight |-> 1024],
                          [SupportedParams |-> {"seed", "image"}, MaxWidth |-> 1024, MaxHeight |-> 1024]>> }
      ]_vars

\* the model list served with all four providers registered
C29_Witness ==
    /\ Done /\ req.entry = "models" /\ resp.kind = "json"
    /\ providerRegistry = AllProviders
    /\ {info.Provider : info \in Range(resp.body)} = AllProviders

\* --- C30 -----------------------------------------------------------------
\* the GETs of FalAIProvider.Generate: the downloads other than that of the
\* caller's image URL
FalGets == SelectSeq(downloads, LAMBDA d : d.url # InURL)

\* C30: FalAIProvider.Generate called without an image URL fails with no
\* request sent; with one it sends one submit request; when the submit
\* fails, is answered with a status other than 200, an undecodable body or
\* no image, it fails without a download; when the answer has an image it
\* makes exactly one GET, of the first image's URL, and returns the bytes
\* of that GET (or fails when the GET fails).
C30_FalSubmitThenOneGet ==
    (provider = FalAI /\ generateCalls # <<>>) =>
        /\ pc = "generate" => (submitted = <<>> /\ FalGets = <<>>)
        /\ pc = "fal_download" => (Len(submitted) = 1 /\ FalGets = <<>>)
        /\ Returned =>
              IF generateCalls[1].ImageURL = ""
              THEN genErr.kind = "fal_image_url_required" /\ submitted = <<>> /\ FalGets = <<>>
              ELSE /\ Len(submitted) = 1
                   /\ genErr.kind # "fal_image_url_required"
                   /\ genErr.kind \in {"fal_transport", "fal_status", "fal_decode", "fal_no_images"}
                         => (FalGets = <<>> /\ genOut = NoBytes)
                   /\ genErr.kind \notin {"fal_transport", "fal_status", "fal_decode", "fal_no_images"}
                         => /\ Len(FalGets) = 1
                            /\ FalGets[1].url = "http://fal/out1"
                            /\ IF FalGets[1].ok
                               THEN genErr = NoErr /\ genOut = FalGets[1].bytes
                               ELSE genErr.kind = "fal_download" /\ genOut = NoBytes

\* a call that got two images offered and returned the bytes of the first
C30_Witness ==
    /\ Returned /\ provider = FalAI /\ genErr = NoErr /\ genOut = OutPng
    /\ Len(submitted) = 1 /\ FalGets = <<[url |-> "http://fal/out1", ok |-> TRUE, bytes |-> OutPng]>>

\* --- C31 -----------------------------------------------------------------
\* C31: a poll that fails in transport, whose body cannot be read, or whose
\* 200 body is no JSON ends ModelScopeProvider.Generate at once with the
\* error of that poll, whatever is left of the attempts, and nothing is
\* downloaded; a poll answered with a status other than 200 never ends the
\* call with a poll error.
C31_FatalPollEndsCall ==
    /\ lastPoll.http \in {"transport", "read", "badjson"}
          => /\ Returned
             /\ genErr.kind = "ms_poll_" \o lastPoll.http
             /\ genOut = NoBytes
             /\ msPolls = i + 1 /\ msPolls <= maxPollingAttempts
             /\ \A k \in 1..Len(downloads) : downloads[k].url = InURL
    /\ lastPoll.http = "status"
          => ~(Returned /\ genErr.kind \in {"ms_poll_transport", "ms_poll_read", "ms_poll_badjson", "ms_poll_status"})

\* the first poll answered with a body that is no JSON, 89 attempts left
C31_Witness ==
    Returned /\ lastPoll.http = "badjson" /\ genErr.kind = "ms_poll_badjson" /\ msPolls = 1 /\ i = 0

\* --- C32 -----------------------------------------------------------------
\* the errors of a submit request that was not answered with 200 and a
\* body carrying a task ID
MSSubmitErrors == {"ms_submit_transport", "ms_submit_status", "ms_submit_decode", "ms_no_task_id"}

\* C32: ModelScopeProvider.Generate sends a poll only after its one submit
\* request was answered with 200 and a non-empty task ID; a submit that
\* fails, is answered with another status, an undecodable body or an empty
\* task ID ends the call with an error and no poll at all.
C32_NoPollWithoutTaskID ==
    provider = Modelscope =>
        /\ pc \in {"precheck", "generate"} => (msPolls = 0 /\ lastPoll = NoPoll)
        /\ (msPolls > 0 \/ pc \in {"ms_poll", "ms_download"})
              => (Len(submitted) = 1 /\ genErr.kind \notin MSSubmitErrors)
        /\ (Returned /\ genErr.kind \in MSSubmitErrors)
              => (msPolls = 0 /\ lastPoll = NoPoll /\ Len(submitted) = 1 /\ genOut = NoBytes)

\* a submit answered with 200 and an empty task ID: an error, no poll
C32_Witness ==
    Returned /\ provider = Modelscope /\ genErr.kind = "ms_no_task_id" /\ msPolls = 0
             /\ Len(submitted) = 1

\* --- C33 -----------------------------------------------------------------
\* the caller supplied a seed that is a signed 64-bit value
SeedSupplied == req.seed.k = "num"

\* C33: the seed a caller supplied, 0 included, is the seed of the
\* GenerationInput the adapter is called with and the seed the upstream
\* request of a model with "seed" among its SupportedParams carries; a
\* caller that supplied none gets a random seed.
C33_CallerSeedForwarded ==
    req.entry \in Entries =>
        /\ \A k \in 1..Len(generateCalls) :
              IF SeedSupplied
              THEN generateCalls[k].Seed = req.seed.n
              ELSE generateCalls[k].Seed \in RandSeeds
        /\ \A k \in 1..Len(submitted) :
              (SeedSupplied /\ HasCap(submitted[k].to, submitted[k].model)
                 /\ "seed" \in CapOf(submitted[k].to, submitted[k].model).SupportedParams)
                => (CarriesSeed(submitted[k]) /\ submitted[k].seed = req.seed.n)

\* --- C34 -----------------------------------------------------------------
\* C34: every name of a served model list is parsed by ParseModelName into
\* the provider key it was listed under and the model name of the adapter,
\* slashes in it included, and that provider is found in the registry; and
\* the list has one entry for each registered provider, no more.
C34_ListedNamesParseBack ==
    (Done /\ req.entry \in ModelsEntries /\ resp.kind = "json") =>
        /\ \A n \in 1..Len(resp.body) :
              LET info == resp.body[n] IN
              /\ Len(info.Models) = Len(GetModels(info.Provider))
              /\ \A k \in 1..Len(info.Models) :
                    LET parsed == ParseModelName(info.Models[k].Name) IN
                    /\ parsed.ok
                    /\ parsed.provider = info.Provider
                    /\ parsed.model = GetModels(info.Provider)[k].Name
                    /\ parsed.provider \in providerRegistry
        /\ \A p \in providerRegistry :
              Cardinality({n \in 1..Len(resp.body) : resp.body[n].Provider = p}) = 1
        /\ Len(resp.body) = Cardinality(providerRegistry)

\* a list that shows Modelscope/Qwen/Qwen-Image, a model name with a slash
C34_Witness ==
    /\ Done /\ req.entry \in ModelsEntries /\ resp.kind = "json"
    /\ \E n \in 1..Len(resp.body) :
         /\ resp.body[n].Provider = Modelscope
         /\ resp.body[n].Models[1].Name = <<"Modelscope", "/", "Qwen", "/", "Qwen-Image">>

\* --- C35 -----------------------------------------------------------------
\* the adapter's Generate has returned success with no image bytes
EmptySuccess ==
    /\ generateCalls # <<>>
    /\ pc \in {"returned", "convert", "deliver", "cleanup", "done"}
    /\ genErr = NoErr /\ BytesLen0(genOut)

\* C35: after a Generate that returned success with zero image bytes the
\* request is answered 500 and ends: nothing is converted, nothing saved
\* locally, nothing written inline and no output uploaded (the host has
\* been sent at most the staging upload of the input image).
C35_EmptyOutputIsServerError ==
    EmptySuccess =>
        /\ pc \in {"returned", "cleanup", "done"}
        /\ pc # "returned" => resp = ErrorResp(500, "no_image_data")
        /\ webpBytes = NoBytes
        /\ localSaves = <<>>
        /\ \A k \in 1..Len(hostUploads) : k = 1 /\ hostUploads[k] = generateCalls[1].ImageBytes

\* a ModelScope task whose image downloaded as zero bytes, answered 500
C35_Witness ==
    /\ Done /\ provider = Modelscope /\ genErr = NoErr /\ BytesLen0(genOut)
    /\ Len(downloads) > 0 /\ downloads[Len(downloads)].ok
    /\ resp = ErrorResp(500, "no_image_data")

\* --- C36 -----------------------------------------------------------------
\* the three classes of a 200 body
DataUrlBody(body) ==
    /\ body.json /\ ~body.imageUrl.empty
    /\ body.imageUrl.dataPrefix /\ body.imageUrl.comma /\ B64Valid(body.imageUrl.payload)
OtherUrlBody(body) ==
    /\ body.json /\ ~body.imageUrl.empty
    /\ ~(body.imageUrl.dataPrefix /\ body.imageUrl.comma /\ B64Valid(body.imageUrl.payload))
RawBody(body) == ~body.json \/ body.imageUrl.empty

\* r is the result the three-way classification allows for the body
ThreeWay(body, r) ==
    /\ DataUrlBody(body) => r.err = NoErr /\ r.out = B64Decode(body.imageUrl.payload)
    /\ OtherUrlBody(body) => r.err # NoErr /\ r.out = NoBytes
    /\ RawBody(body) => r.err = NoErr /\ r.out = body.raw

\* C36: DreamiflyProvider.Generate classifies a 200 body in exactly three
\* ways: a data:image/ URL with a comma and valid base64 gives the decoded
\* payload, any other non-empty imageUrl gives an error, and every other
\* body is returned unchanged; what a Dreamifly call returns to the handler
\* is a transport failure or the classification of some body.
C36_DreamiflyThreeWay ==
    /\ \A body \in DreamiflyBodies :
          /\ Cardinality({c \in {DataUrlBody(body), OtherUrlBody(body), RawBody(body)} : c}) = 1
          /\ ThreeWay(body, DreamiflyDecode(body))
    /\ (provider = Dreamifly /\ pc = "returned" /\ submitted # <<>>) =>
          \/ \E f \in HttpFailures : genErr = Err("dreamifly_" \o f, <<>>) /\ genOut = NoBytes
          \/ \E body \in DreamiflyBodies : ThreeWay(body, [out |-> genOut, err |-> genErr])

\* a Dreamifly call that returned the error of a data URL whose payload is
\* not base64
C36_Witness ==
    /\ provider = Dreamifly /\ pc = "returned" /\ submitted # <<>>
    /\ genErr = Err("dreamifly_base64", <<>>) /\ genOut = NoBytes
    /\ \E body \in DreamiflyBodies :
          OtherUrlBody(body) /\ body.imageUrl.dataPrefix /\ body.imageUrl.comma

\* --- C37 -----------------------------------------------------------------
\* the poll response bodies ModelScopeProvider.Generate has not closed: the
\* Close of every response Client.Do handed back is deferred, so it runs
\* when Generate returns; while the loop runs every poll sent so far was
\* answered (a transport error ends the call), and none is closed
OpenPollBodies == IF pc \in {"ms_poll", "ms_download"} THEN msPolls ELSE 0

\* C37: during the polling loop at most one poll response body is open:
\* each body is closed before the next poll request is sent, so the number
\* of unclosed bodies does not grow with the number of polls.
C37_AtMostOneOpenBody == OpenPollBodies <= 1

\* --- C38 -----------------------------------------------------------------
\* a web password is configured and the client's session is not authenticated
Unauthenticated == web.password # "" /\ ~web.authenticated

\* the server has called a provider's Generate, or OptimizePrompt, whose
\* answer or failure is the response of /api/optimize-prompt
ProviderCalled ==
    \/ generateCalls # <<>>
    \/ /\ req.entry = OptimizeEntry /\ Done
       /\ \/ resp.kind = "json"
          \/ resp = ErrorResp(500, "optimize")

\* the request was refused or redirected
RefusedOrRedirected == resp.kind = "redirect" \/ (resp.kind = "error" /\ resp.code \in {401, 403})

\* C38: with a web password configured, a client without an authenticated
\* session cannot make the server call a provider's Generate or
\* OptimizePrompt through the web-UI endpoints: /, /api/generate,
\* /api/models and /api/optimize-prompt all refuse or redirect it.
C38_WebUINeedsSession ==
    (Unauthenticated /\ req.entry \in WebUIRoutes) =>
        /\ ~ProviderCalled
        /\ Done => RefusedOrRedirected


====
